---------------------------- MODULE Spec2Model ----------------------------
(***************************************************************************)
(* cataclysm: an HTTP/1.1 server framework with WebSocket upgrade.         *)
(*                                                                         *)
(* Part A models the server supervisor and the connection tasks of         *)
(* src/src/server.rs (Server::run, Server::dispatch): the counting         *)
(* semaphore, the accept loop, the per-connection timeout race, the        *)
(* WebSocket hand-over and the signal-driven shutdown.                     *)
(*                                                                         *)
(* Part B models the route tree of src/cataclysm/src/branch.rs: the        *)
(* tokenizer, the builder (Branch::new, with, defaults_to, layer, ...),    *)
(* merge and nest, the resolution PureBranch::callback_information, the    *)
(* pipeline of layers, the Path extractor and the closures around the      *)
(* handlers.  The WebSocket handshake of src/cataclysm/src/ws.rs follows.  *)
(***************************************************************************)
EXTENDS Integers, Sequences, FiniteSets, TLC

(***************************************************************************)
(* Bounds of the model.                                                    *)
(***************************************************************************)
\* value given to ServerBuilder::max_connections
MaxConnections == 2
\* number of clients that ever connect
NumClients == 3
\* number of times listener.accept() may return an error
MaxAcceptErrors == 2
\* number of handlers the application registers
MaxRoutes == 3
\* number of segments of a request path
MaxSegments == 2
\* number of calls of Branch::layer on one branch
MaxLayers == 2
\* number of times try_read reports WouldBlock while a request is read
MaxWouldBlock == 2
\* number of positions of the Path extractor of a handler
MaxExtractors == 2

Clients == 1..NumClients

None == "None"

VARIABLES
    max_connections,  \* available permits of the Semaphore (Server.max_connections)
    loop,             \* position of the accept loop: "acquire", "accept", "dropped"
    run,              \* "running", or "ok" once Server::run has returned Ok(())
    backlog,          \* clients that connected and wait for listener.accept()
    conn,             \* per client: its connection task and its socket
    ws,               \* per client: the WebSocketThread spawned for it
    accept_errors,    \* number of accept() errors so far
    branch,           \* the Branch under construction (the route tree)
    handlers,         \* number of callbacks registered so far
    request,          \* the request being resolved, if any
    info,             \* what PureBranch::pipeline returned for it
    operands,         \* three branches an application is about to merge
    merged,           \* the merges done so far: both sides and the result
    response,         \* what the callback of the resolved request answered
    handshake,        \* a WebSocket handshake: the request and what came of it
    reader,           \* a WebSocket read loop: its position and its callbacks
    writer,           \* tasks sending frames through one WebSocketWriter
    frame,            \* a WebSocket frame and what the codec made of it
    wire,             \* an HTTP response and what the codec made of it
    tokenized,        \* a path and what the tokenizer made of it
    io,               \* one connection: its socket and the position of dispatch
    inbound           \* a WebSocket connection: its bytes and the frames read

serverVars == <<max_connections, loop, run, backlog, conn, ws, accept_errors>>

mergeVars == <<operands, merged>>

callVars == <<response, handshake>>

codecVars == <<reader, writer, frame, wire, tokenized, io, inbound>>

routeVars == <<branch, handlers, request, info, operands, merged,
               response, handshake, reader, writer, frame, wire, tokenized,
               io, inbound>>

vars == <<max_connections, loop, run, backlog, conn, ws, accept_errors,
          branch, handlers, request, info, operands, merged,
          response, handshake, reader, writer, frame, wire, tokenized,
               io, inbound>>

(***************************************************************************)
(* Part A.  Server::run and Server::dispatch                               *)
(***************************************************************************)

\* What a client sends: a plain request, bytes that do not parse, a
\* WebSocket upgrade (with Sec-WebSocket-Key, to a path with a handler), or a
\* request with the header Expect: 100-continue, whose body the client sends
\* once it has got the 100.
RequestKinds == {"http", "bad", "upgrade", "expect"}

\* Positions of a spawned connection task inside dispatch in which the
\* response has not been written yet: reading the request, running the
\* pipeline, writing the response, writing the 101 of an upgrade.
BeforeResponse == {"read", "handle", "write", "upgrade"}

\* Positions of a spawned connection task inside dispatch; at "ws_handler" the
\* 101 is written and dispatch awaits handler(web_socket_writer).
InDispatch == BeforeResponse \cup {"ws_handler"}

\* Status codes of Response
CONTINUE == 100
SWITCHING_PROTOCOLS == 101
OK == 200
BAD_REQUEST == 400
NOT_FOUND == 404

InFlight == {c \in Clients : conn[c].pc \in InDispatch}

ServerInit ==
    /\ max_connections = MaxConnections
    /\ loop = "acquire"
    /\ run = "running"
    /\ backlog = <<>>
    /\ conn = [c \in Clients |->
                 [pc |-> "idle", kind |-> None, outcome |-> None,
                  socket |-> None, written |-> <<>>, released |-> 0]]
    /\ ws = [c \in Clients |-> [state |-> None, permit |-> None]]
    /\ accept_errors = 0

\* A client opens a TCP connection and sends its request.
ClientConnect ==
    \E c \in Clients, k \in RequestKinds :
        /\ run = "running"
        /\ conn[c].pc = "idle"
        /\ \A d \in Clients : d < c => conn[d].pc # "idle"
        /\ conn' = [conn EXCEPT ![c].pc = "waiting", ![c].kind = k,
                                ![c].socket = "open"]
        /\ backlog' = Append(backlog, c)
        /\ UNCHANGED <<max_connections, loop, run, ws, accept_errors>>
        /\ UNCHANGED routeVars

\* Mutant: the loop goes on to accept without taking a permit.
AcquirePermitNotTaken ==
    /\ run = "running"
    /\ loop = "acquire"
    /\ loop' = "accept"
    /\ UNCHANGED <<max_connections, run, backlog, conn, ws, accept_errors>>
    /\ UNCHANGED routeVars

\* self.max_connections.acquire().await.unwrap().forget()
AcquirePermit ==
    /\ run = "running"
    /\ loop = "acquire"
    /\ max_connections > 0
    /\ max_connections' = max_connections - 1
    /\ loop' = "accept"
    /\ UNCHANGED <<run, backlog, conn, ws, accept_errors>>
    /\ UNCHANGED routeVars

\* listener.accept() returns Ok((socket, addr)); the task is spawned.
AcceptOk ==
    /\ run = "running"
    /\ loop = "accept"
    /\ backlog # <<>>
    /\ conn' = [conn EXCEPT ![Head(backlog)].pc = "read"]
    /\ backlog' = Tail(backlog)
    /\ loop' = "acquire"
    /\ UNCHANGED <<max_connections, run, ws, accept_errors>>
    /\ UNCHANGED routeVars

\* listener.accept() returns Err(e): the error is logged and the loop goes on.
AcceptErr ==
    /\ run = "running"
    /\ loop = "accept"
    /\ backlog # <<>>
    /\ accept_errors < MaxAcceptErrors
    /\ accept_errors' = accept_errors + 1
    /\ loop' = "acquire"
    /\ UNCHANGED <<max_connections, run, backlog, conn, ws>>
    /\ UNCHANGED routeVars

\* The end of the spawned task: the select! arm has run, the socket owned by
\* the dispatch future is dropped, and server.max_connections.add_permits(1).
Finish(c, outcome, responses) ==
    /\ conn' = [conn EXCEPT ![c].pc = "done",
                            ![c].outcome = outcome,
                            ![c].socket = IF ws'[c].state = "running"
                                            THEN "websocket" ELSE "dropped",
                            ![c].written = @ \o responses,
                            ![c].released = @ + 1]
    /\ max_connections' = max_connections + 1

\* The responses with the given status in what was written to a socket.
Written(c, status) == SelectSeq(conn[c].written, LAMBDA r : r = status)

\* try_read reports WouldBlock and no request is kept yet: the bytes read so
\* far parse and carry Expect: 100-continue, 100 is written and the loop goes
\* on without keeping the request.
DispatchContinue(c) ==
    /\ conn[c].pc = "read"
    /\ conn[c].kind = "expect"
    /\ Len(Written(c, CONTINUE)) < MaxWouldBlock
    /\ conn' = [conn EXCEPT ![c].written = @ \o <<CONTINUE>>]
    /\ UNCHANGED <<max_connections, loop, run, backlog, ws, accept_errors>>
    /\ UNCHANGED routeVars

\* dispatch_read returns the request bytes.  The read loop of a request with
\* Expect: 100-continue is only left when try_read returns Ok(0), after the
\* client has sent the body and closed its half of the connection.
DispatchRead(c) ==
    /\ conn[c].pc = "read"
    /\ conn[c].kind # "bad"
    /\ conn[c].kind = "expect" => Written(c, CONTINUE) # <<>>
    /\ conn' = [conn EXCEPT ![c].pc = IF conn[c].kind = "upgrade"
                                      THEN "upgrade" ELSE "handle"]
    /\ UNCHANGED <<max_connections, loop, run, backlog, ws, accept_errors>>
    /\ UNCHANGED routeVars

\* The header does not parse: 400 is written and dispatch returns Ok(()).
DispatchBadRequest(c) ==
    /\ conn[c].pc = "read"
    /\ conn[c].kind = "bad"
    /\ ws' = ws
    /\ Finish(c, "ok", <<BAD_REQUEST>>)
    /\ UNCHANGED <<loop, run, backlog, accept_errors>>
    /\ UNCHANGED routeVars

\* readable()/try_read fail: dispatch returns Err(Error::Io).
DispatchReadErr(c) ==
    /\ conn[c].pc = "read"
    /\ ws' = ws
    /\ Finish(c, "err", <<>>)
    /\ UNCHANGED <<loop, run, backlog, accept_errors>>
    /\ UNCHANGED routeVars

\* The pipeline (layers and handler) has produced the response.
Handle(c) ==
    /\ conn[c].pc = "handle"
    /\ conn' = [conn EXCEPT ![c].pc = "write"]
    /\ UNCHANGED <<max_connections, loop, run, backlog, ws, accept_errors>>
    /\ UNCHANGED routeVars

\* dispatch_write writes the response and dispatch returns Ok(()).
DispatchWrite(c) ==
    /\ conn[c].pc = "write"
    /\ ws' = ws
    /\ Finish(c, "ok", <<OK>>)
    /\ UNCHANGED <<loop, run, backlog, accept_errors>>
    /\ UNCHANGED routeVars

\* try_write fails: dispatch returns Err(Error::Io).
DispatchWriteErr(c) ==
    /\ conn[c].pc \in {"write", "upgrade"}
    /\ ws' = ws
    /\ Finish(c, "err", <<>>)
    /\ UNCHANGED <<loop, run, backlog, accept_errors>>
    /\ UNCHANGED routeVars

\* WebSocketStream::split: the permit of the stream, if any, goes to the reader.
Split(stream) ==
    [state |-> "running", permit |-> stream.permit]

\* The upgrade branch of dispatch: 101 is written, the socket is split and
\* dispatch awaits the handler, handler(web_socket_writer).await.
UpgradeWrite(c) ==
    /\ conn[c].pc = "upgrade"
    /\ conn' = [conn EXCEPT ![c].pc = "ws_handler",
                            ![c].written = @ \o <<SWITCHING_PROTOCOLS>>]
    /\ UNCHANGED <<max_connections, loop, run, backlog, ws, accept_errors>>
    /\ UNCHANGED routeVars

\* The handler is there: the WebSocketThread is spawned with the read half and
\* dispatch returns Ok(()).
Upgrade(c) ==
    /\ conn[c].pc = "ws_handler"
    /\ ws' = [ws EXCEPT ![c] = Split([permit |-> None])]
    /\ Finish(c, "ok", <<>>)
    /\ UNCHANGED <<loop, run, backlog, accept_errors>>
    /\ UNCHANGED routeVars

\* Mutant: the timeout arm ends the task without add_permits(1).
TimeoutKeepsPermit(c) ==
    /\ conn[c].pc \in InDispatch
    /\ conn' = [conn EXCEPT ![c].pc = "done", ![c].outcome = "timeout",
                            ![c].socket = "dropped"]
    /\ UNCHANGED <<max_connections, loop, run, backlog, ws, accept_errors>>
    /\ UNCHANGED routeVars

\* Mutant: the timeout is logged but the dispatch future is not dropped.
TimeoutKeepsDispatch(c) ==
    /\ conn[c].pc \in InDispatch
    /\ conn[c].outcome = None
    /\ conn' = [conn EXCEPT ![c].outcome = "timeout"]
    /\ UNCHANGED <<max_connections, loop, run, backlog, ws, accept_errors>>
    /\ UNCHANGED routeVars

\* tokio::time::sleep(*server.timeout) wins the select!: the dispatch future
\* is dropped with its socket.
Timeout(c) ==
    /\ conn[c].pc \in InDispatch
    /\ ws' = ws
    /\ Finish(c, "timeout", <<>>)
    /\ UNCHANGED <<loop, run, backlog, accept_errors>>
    /\ UNCHANGED routeVars

\* The read loop of the WebSocketThread ends; the reader is dropped.
WebSocketClose(c) ==
    /\ ws[c].state = "running"
    /\ ws' = [ws EXCEPT ![c].state = "closed", ![c].permit = None]
    /\ conn' = [conn EXCEPT ![c].socket = "dropped"]
    /\ max_connections' = max_connections + (IF ws[c].permit = None THEN 0 ELSE 1)
    /\ UNCHANGED <<loop, run, backlog, accept_errors>>
    /\ UNCHANGED routeVars

\* Mutant: the shutdown aborts the connection tasks in flight.
ShutdownAbortsTasks ==
    /\ run = "running"
    /\ run' = "ok"
    /\ loop' = "dropped"
    /\ conn' = [c \in Clients |->
                  IF conn[c].pc \in InDispatch
                  THEN [conn[c] EXCEPT !.pc = "done", !.outcome = "aborted",
                                       !.socket = "dropped"]
                  ELSE conn[c]]
    /\ UNCHANGED <<max_connections, backlog, ws, accept_errors>>
    /\ UNCHANGED routeVars

\* tokio::signal::ctrl_c() wins the outer select!: the accept loop future is
\* dropped and run returns Ok(()).
Shutdown ==
    /\ run = "running"
    /\ run' = "ok"
    /\ loop' = "dropped"
    /\ UNCHANGED <<max_connections, backlog, conn, ws, accept_errors>>
    /\ UNCHANGED routeVars

(***************************************************************************)
(* Part B.  The route tree (src/cataclysm/src/branch.rs)                   *)
(*                                                                         *)
(* An Option<T> is the empty sequence (None) or a one-element sequence     *)
(* (Some).  A HashMap is a function.  A callback is the number it got when *)
(* it was registered.                                                      *)
(***************************************************************************)

EmptyMap == [k \in {} |-> <<>>]

Put(map, key, value) ==
    [k \in DOMAIN map \cup {key} |-> IF k = key THEN value ELSE map[k]]

(* str::trim_start_matches / str::trim_end_matches *)
RECURSIVE TrimStartMatches(_, _)
TrimStartMatches(s, pat) ==
    IF Len(s) >= Len(pat) /\ SubSeq(s, 1, Len(pat)) = pat
    THEN TrimStartMatches(SubSeq(s, Len(pat) + 1, Len(s)), pat)
    ELSE s

RECURSIVE TrimEndMatches(_, _)
TrimEndMatches(s, pat) ==
    IF Len(s) >= Len(pat) /\ SubSeq(s, Len(s) - Len(pat) + 1, Len(s)) = pat
    THEN TrimEndMatches(SubSeq(s, 1, Len(s) - Len(pat)), pat)
    ELSE s

StartsWith(s, pat) == Len(s) >= Len(pat) /\ SubSeq(s, 1, Len(pat)) = pat

EndsWith(s, pat) ==
    Len(s) >= Len(pat) /\ SubSeq(s, Len(s) - Len(pat) + 1, Len(s)) = pat

(* Tokenizable::tokenize_once: cut at the first '/' that is not the first  *)
(* character and is not preceded by a backslash.                            *)
tokenize_once(r) ==
    LET cuts == {k \in 2..Len(r) :
                    SubSeq(r, k, k) = "/" /\ SubSeq(r, k - 1, k - 1) # "\\"}
    IN  IF cuts = {} THEN <<>>
        ELSE LET k == CHOOSE c \in cuts : \A d \in cuts : c <= d
             IN  << <<SubSeq(r, 1, k - 1), SubSeq(r, k + 1, Len(r))>> >>

(* Tokenizable::tokenize: cut at every '/' that is not the first character *)
(* and is not preceded by a backslash; what is left after the last cut is  *)
(* a token unless it is empty.  prev_pos counts from 0, k from 1.          *)
RECURSIVE Tokens(_, _, _)
\* what is left after the last cut is a token even when it is empty
TokensWithEmptyTail(r, prev_pos, k) ==
    IF k > Len(r)
    THEN IF r # "" THEN <<SubSeq(r, prev_pos + 1, Len(r))>> ELSE <<>>
    ELSE IF SubSeq(r, k, k) = "/" /\ SubSeq(r, k - 1, k - 1) # "\\"
    THEN <<SubSeq(r, prev_pos + 1, k - 1)>> \o Tokens(r, k, k + 1)
    ELSE Tokens(r, prev_pos, k + 1)

Tokens(r, prev_pos, k) ==
    IF k > Len(r)
    THEN IF prev_pos # Len(r) THEN <<SubSeq(r, prev_pos + 1, Len(r))>> ELSE <<>>
    ELSE IF SubSeq(r, k, k) = "/" /\ SubSeq(r, k - 1, k - 1) # "\\"
    THEN <<SubSeq(r, prev_pos + 1, k - 1)>> \o Tokens(r, k, k + 1)
    ELSE Tokens(r, prev_pos, k + 1)

tokenize(r) == Tokens(r, 0, 2)

(* The head and the rest of a trimmed, non-empty trail, as Branch::new,    *)
(* get_branch and callback_information compute them.                       *)
BaseOf(trimmed_trail) ==
    IF tokenize_once(trimmed_trail) # <<>>
    THEN tokenize_once(trimmed_trail)[1][1] ELSE trimmed_trail

RestOf(trimmed_trail) ==
    IF tokenize_once(trimmed_trail) # <<>>
    THEN tokenize_once(trimmed_trail)[1][2] ELSE ""

(* Branch::clasify: ^\{:.*\}$ is a variable, ^\{regex:.*\}$ a pattern.     *)
clasify(candidate) ==
    IF StartsWith(candidate, "{:") /\ EndsWith(candidate, "}")
         /\ Len(candidate) >= 3
    THEN "Default"
    ELSE IF StartsWith(candidate, "{regex:") /\ EndsWith(candidate, "}")
              /\ Len(candidate) >= 8
    THEN "Pattern"
    ELSE "Exact"

(* Regex::is_match for the regular expressions the routes of the model     *)
(* use: literal characters, '.', and the anchors '^' and '$'.              *)
RECURSIVE MatchHere(_, _)
MatchHere(re, text) ==
    IF re = "" THEN TRUE
    ELSE IF re = "$" THEN text = ""
    ELSE IF text # "" /\ (SubSeq(re, 1, 1) = "." \/ SubSeq(re, 1, 1) = SubSeq(text, 1, 1))
    THEN MatchHere(SubSeq(re, 2, Len(re)), SubSeq(text, 2, Len(text)))
    ELSE FALSE

is_match(re, text) ==
    IF StartsWith(re, "^")
    THEN MatchHere(SubSeq(re, 2, Len(re)), text)
    ELSE \E i \in 1..(Len(text) + 1) : MatchHere(re, SubSeq(text, i, Len(text)))

EmptyBranch(trail) ==
    [exact_branches |-> EmptyMap,
     pattern_branches |-> <<>>,
     variable_branch |-> <<>>,
     source |-> trail,
     method_callbacks |-> EmptyMap,
     default_method_callback |-> <<>>,
     default_callback |-> <<>>,
     files_callback |-> <<>>,
     layers |-> <<>>,
     stream_handler |-> <<>>]

(* Branch::new *)
RECURSIVE BranchNew(_)
BranchNew(trail) ==
    LET trimmed_trail == TrimStartMatches(trail, "/")
        b == EmptyBranch(trail)
    IN  IF trimmed_trail = "" THEN b
        ELSE LET base == BaseOf(trimmed_trail)
                 rest_branch == BranchNew(RestOf(trimmed_trail))
             IN  CASE clasify(base) = "Exact" ->
                        [b EXCEPT !.exact_branches = Put(@, base, rest_branch)]
                   [] clasify(base) = "Pattern" ->
                        [b EXCEPT !.pattern_branches =
                            <<[regex |-> TrimEndMatches(
                                           TrimStartMatches(base, "{regex:"), "}"),
                               branch |-> rest_branch]>>]
                   [] clasify(base) = "Default" ->
                        [b EXCEPT !.variable_branch =
                            <<[id |-> TrimEndMatches(
                                        TrimStartMatches(base, "{:"), "}"),
                               branch |-> rest_branch]>>]

(* A step from a node to one of its children. *)
ExactStep(key) == [kind |-> "exact", key |-> key, index |-> 0]
PatternStep(i) == [kind |-> "pattern", key |-> "", index |-> i]
VariableStep == [kind |-> "variable", key |-> "", index |-> 0]

Child(b, step) ==
    CASE step.kind = "exact" -> b.exact_branches[step.key]
      [] step.kind = "pattern" -> b.pattern_branches[step.index].branch
      [] step.kind = "variable" -> b.variable_branch[1].branch

WithChild(b, step, child) ==
    CASE step.kind = "exact" -> [b EXCEPT !.exact_branches[step.key] = child]
      [] step.kind = "pattern" ->
            [b EXCEPT !.pattern_branches[step.index].branch = child]
      [] step.kind = "variable" ->
            [b EXCEPT !.variable_branch[1].branch = child]

(* Branch::get_branch: the steps from b to the node that trail names, or   *)
(* None.                                                                    *)
RECURSIVE get_branch(_, _)
get_branch(b, trail) ==
    LET trimmed_trail == TrimStartMatches(trail, "/")
        base == BaseOf(trimmed_trail)
        rest == RestOf(trimmed_trail)
        pats == {i \in 1..Len(b.pattern_branches) :
                    "{regex:" \o b.pattern_branches[i].regex \o "}" = base}
        step ==
            IF base \in DOMAIN b.exact_branches THEN <<ExactStep(base)>>
            ELSE IF pats # {}
            THEN <<PatternStep(CHOOSE i \in pats : \A j \in pats : i <= j)>>
            ELSE IF b.variable_branch # <<>>
                    /\ "{:" \o b.variable_branch[1].id \o "}" = base
            THEN <<VariableStep>>
            ELSE <<>>
    IN  IF trimmed_trail = "" THEN << <<>> >>
        ELSE IF step = <<>> THEN <<>>
        ELSE LET below == get_branch(Child(b, step[1]), rest)
             IN  IF below = <<>> THEN <<>> ELSE << step \o below[1] >>

RECURSIVE NodeAt(_, _)
NodeAt(b, steps) ==
    IF steps = <<>> THEN b ELSE NodeAt(Child(b, Head(steps)), Tail(steps))

RECURSIVE ReplaceAt(_, _, _)
ReplaceAt(b, steps, node) ==
    IF steps = <<>> THEN node
    ELSE WithChild(b, Head(steps),
                   ReplaceAt(Child(b, Head(steps)), Tail(steps), node))

(* let top_branch = self.get_branch(source).unwrap() *)
TopSteps(b) == get_branch(b, b.source)[1]

TopBranch(b) == NodeAt(b, TopSteps(b))

(* Branch::with: the handler answers each of the methods at the top node.  *)
With(b, methods, handler) ==
    ReplaceAt(b, TopSteps(b),
        [TopBranch(b) EXCEPT !.method_callbacks =
            [m \in DOMAIN @ \cup methods |->
                IF m \in methods THEN handler ELSE @[m]]])

(* Branch::unmatched_method_to *)
unmatched_method_to(b, callback) ==
    ReplaceAt(b, TopSteps(b),
        [TopBranch(b) EXCEPT !.default_method_callback = <<callback>>])

(* Branch::defaults_to *)
defaults_to(b, callback) ==
    ReplaceAt(b, TopSteps(b),
        [TopBranch(b) EXCEPT !.default_callback = <<callback>>])

(* Branch::files *)
files(b, callback) ==
    ReplaceAt(b, TopSteps(b),
        [TopBranch(b) EXCEPT !.files_callback = <<callback>>])

(* Branch::stream_handler *)
stream_handler(b, handler) ==
    ReplaceAt(b, TopSteps(b),
        [TopBranch(b) EXCEPT !.stream_handler = <<handler>>])

(* Mutant: the new layer is put in front of the layers of the node. *)
layerInFront(b, layer_fn) ==
    ReplaceAt(b, TopSteps(b),
        [TopBranch(b) EXCEPT !.layers = <<layer_fn>> \o @])

(* Branch::layer: top_branch.layers.push(layer_fn) *)
layer(b, layer_fn) ==
    ReplaceAt(b, TopSteps(b),
        [TopBranch(b) EXCEPT !.layers = Append(@, layer_fn)])

(* Branch::merge_mut.  The layers and the source of other are not taken.  *)
RECURSIVE merge_mut(_, _)
RECURSIVE MergePatterns(_, _, _)

(* Mutant: the patterns of the right-hand side are all put at the end. *)
MergePatternsAppendAll(lhs, rhs, additional_pattern_branches) ==
    lhs \o rhs

(* Mutant: a pattern of the right-hand side is only compared with the     *)
(* first pattern of the left-hand side.                                    *)
MergePatternsFirstOnly(lhs, rhs, additional_pattern_branches) ==
    IF rhs = <<>> THEN lhs \o additional_pattern_branches
    ELSE IF lhs # <<>> /\ lhs[1].regex = Head(rhs).regex
    THEN MergePatterns(
            [lhs EXCEPT ![1].branch = merge_mut(@, Head(rhs).branch)],
            Tail(rhs), additional_pattern_branches)
    ELSE MergePatterns(lhs, Tail(rhs),
                       Append(additional_pattern_branches, Head(rhs)))

(* Mutant: what the right-hand side has overwrites the default handler and *)
(* the method handlers of the left-hand side.                              *)
merge_mut_overwrite(self, other) ==
    [self EXCEPT
        !.exact_branches =
            [base \in DOMAIN self.exact_branches \cup DOMAIN other.exact_branches |->
                IF base \notin DOMAIN other.exact_branches
                THEN self.exact_branches[base]
                ELSE IF base \notin DOMAIN self.exact_branches
                THEN other.exact_branches[base]
                ELSE merge_mut(self.exact_branches[base], other.exact_branches[base])],
        !.pattern_branches =
            MergePatterns(self.pattern_branches, other.pattern_branches, <<>>),
        !.variable_branch = IF @ = <<>> THEN other.variable_branch ELSE @,
        !.method_callbacks =
            [m \in DOMAIN self.method_callbacks \cup DOMAIN other.method_callbacks |->
                IF m \in DOMAIN other.method_callbacks
                THEN other.method_callbacks[m] ELSE self.method_callbacks[m]],
        !.default_method_callback =
            IF @ = <<>> THEN other.default_method_callback ELSE @,
        !.default_callback =
            IF other.default_callback # <<>> THEN other.default_callback ELSE @,
        !.files_callback = IF @ = <<>> THEN other.files_callback ELSE @,
        !.stream_handler = IF @ = <<>> THEN other.stream_handler ELSE @]

(* The loop over the pattern branches of the right-hand side: each is     *)
(* merged into the first left-hand pattern with the same source, or kept   *)
(* for the end of the queue.                                               *)
MergePatterns(lhs, rhs, additional_pattern_branches) ==
    IF rhs = <<>> THEN lhs \o additional_pattern_branches
    ELSE LET same == {i \in 1..Len(lhs) : lhs[i].regex = Head(rhs).regex}
         IN  IF same # {}
             THEN LET i == CHOOSE x \in same : \A y \in same : x <= y
                  IN  MergePatterns(
                          [lhs EXCEPT ![i].branch = merge_mut(@, Head(rhs).branch)],
                          Tail(rhs), additional_pattern_branches)
             ELSE MergePatterns(lhs, Tail(rhs),
                                Append(additional_pattern_branches, Head(rhs)))

merge_mut(self, other) ==
    [self EXCEPT
        !.exact_branches =
            [base \in DOMAIN self.exact_branches \cup DOMAIN other.exact_branches |->
                IF base \notin DOMAIN other.exact_branches
                THEN self.exact_branches[base]
                ELSE IF base \notin DOMAIN self.exact_branches
                THEN other.exact_branches[base]
                ELSE merge_mut(self.exact_branches[base], other.exact_branches[base])],
        !.pattern_branches =
            MergePatterns(self.pattern_branches, other.pattern_branches, <<>>),
        !.variable_branch = IF @ = <<>> THEN other.variable_branch ELSE @,
        !.method_callbacks =
            [m \in DOMAIN self.method_callbacks \cup DOMAIN other.method_callbacks |->
                IF m \in DOMAIN self.method_callbacks
                THEN self.method_callbacks[m] ELSE other.method_callbacks[m]],
        !.default_method_callback =
            IF @ = <<>> THEN other.default_method_callback ELSE @,
        !.default_callback = IF @ = <<>> THEN other.default_callback ELSE @,
        !.files_callback = IF @ = <<>> THEN other.files_callback ELSE @,
        !.stream_handler = IF @ = <<>> THEN other.stream_handler ELSE @]

(* Mutant: the importance is held by the right-hand side. *)
mergeFlipped(self, other) == merge_mut(other, self)

(* Branch::merge *)
merge(self, other) == merge_mut(self, other)

(* Branch::nest: other is merged into the top node of self. *)
nest(self, other) ==
    ReplaceAt(self, TopSteps(self), merge_mut(TopBranch(self), other))

(* Branch::purify: the same tree without the builder's source.             *)
RECURSIVE purify(_)
purify(b) ==
    [exact_branches |->
        [base \in DOMAIN b.exact_branches |-> purify(b.exact_branches[base])],
     pattern_branches |->
        [i \in 1..Len(b.pattern_branches) |->
            [regex |-> b.pattern_branches[i].regex,
             branch |-> purify(b.pattern_branches[i].branch)]],
     variable_branch |->
        IF b.variable_branch = <<>> THEN <<>>
        ELSE <<[id |-> b.variable_branch[1].id,
                branch |-> purify(b.variable_branch[1].branch)]>>,
     method_callbacks |-> b.method_callbacks,
     default_method_callback |-> b.default_method_callback,
     default_callback |-> b.default_callback,
     files_callback |-> b.files_callback,
     layers |-> b.layers,
     stream_handler |-> b.stream_handler]

(* std::path::Path::new(trimmed_trail).extension().is_some(): the last     *)
(* component (empty components and inner "." components are skipped) is a  *)
(* normal one and has a '.' after its first character.                     *)
RECURSIVE Components(_)
Components(path) ==
    LET cuts == {k \in 1..Len(path) : SubSeq(path, k, k) = "/"}
    IN  IF cuts = {} THEN <<path>>
        ELSE LET k == CHOOSE c \in cuts : \A d \in cuts : c <= d
             IN  <<SubSeq(path, 1, k - 1)>>
                    \o Components(SubSeq(path, k + 1, Len(path)))

FileName(path) ==
    LET comps == Components(path)
        kept == {i \in 1..Len(comps) :
                    comps[i] # "" /\ (comps[i] # "." \/ i = 1)}
    IN  IF kept = {} THEN <<>>
        ELSE LET last == comps[CHOOSE i \in kept : \A j \in kept : j <= i]
             IN  IF last \in {".", ".."} THEN <<>> ELSE <<last>>

HasExtension(path) ==
    /\ FileName(path) # <<>>
    /\ \E k \in 2..Len(FileName(path)[1]) :
           SubSeq(FileName(path)[1], k, k) = "."

(* CallbackInformation::ResponseHandler / StreamHandler *)
ResponseHandler(tracker, callback, layers) ==
    [kind |-> "ResponseHandler", tracker |-> tracker, callback |-> callback,
     layers |-> layers, variable_indicators |-> <<>>]

StreamHandler(callback) ==
    [kind |-> "StreamHandler", tracker |-> "Stream", callback |-> callback,
     layers |-> <<>>, variable_indicators |-> <<>>]

(* Mutant: the layers of the parent are put before those gathered below. *)
updateInFront(c_info, layers, is_var) ==
    [c_info EXCEPT
        !.layers = IF c_info.kind = "ResponseHandler" THEN layers \o @ ELSE @,
        !.variable_indicators = Append(@, is_var)]

(* CallbackInformation::update *)
update(c_info, layers, is_var) ==
    [c_info EXCEPT
        !.layers = IF c_info.kind = "ResponseHandler" THEN @ \o layers ELSE @,
        !.variable_indicators = Append(@, is_var)]

(* Mutant: the last pattern that matches is taken. *)
LastMatch(pattern_branches, base) ==
    LET hits == {i \in 1..Len(pattern_branches) :
                    is_match(pattern_branches[i].regex, base)}
    IN  IF hits = {} THEN 0 ELSE CHOOSE i \in hits : \A j \in hits : j <= i

(* for (pattern, branch) in self.pattern_branches.iter() { if              *)
(* pattern.is_match(&base) { ...; break } }: the index of the pattern the  *)
(* loop stops at, 0 if none matches.                                       *)
FirstMatch(pattern_branches, base) ==
    LET hits == {i \in 1..Len(pattern_branches) :
                    is_match(pattern_branches[i].regex, base)}
    IN  IF hits = {} THEN 0 ELSE CHOOSE i \in hits : \A j \in hits : i <= j

(* Mutant: the default handler is asked before the files handler. *)
FallbackDefaultFirst(b, trimmed_trail) ==
    IF b.default_callback # <<>>
    THEN <<ResponseHandler("Default", b.default_callback[1], b.layers)>>
    ELSE IF HasExtension(trimmed_trail) /\ b.files_callback # <<>>
    THEN <<ResponseHandler("File", b.files_callback[1], b.layers)>>
    ELSE <<>>

(* Mutant: the default handler only answers the node's own path. *)
FallbackFilesOnly(b, trimmed_trail) ==
    IF HasExtension(trimmed_trail) /\ b.files_callback # <<>>
    THEN <<ResponseHandler("File", b.files_callback[1], b.layers)>>
    ELSE <<>>

(* The None arm of callback_information: no child resolved the trail.     *)
Fallback(b, trimmed_trail) ==
    IF HasExtension(trimmed_trail) /\ b.files_callback # <<>>
    THEN <<ResponseHandler("File", b.files_callback[1], b.layers)>>
    ELSE IF b.default_callback # <<>>
    THEN <<ResponseHandler("Default", b.default_callback[1], b.layers)>>
    ELSE <<>>

(* Mutant: the stream handler is asked before the default handler. *)
EndpointStreamFirst(b, method) ==
    IF method \in DOMAIN b.method_callbacks
    THEN <<ResponseHandler("Exact", b.method_callbacks[method], b.layers)>>
    ELSE IF b.default_method_callback # <<>>
    THEN <<ResponseHandler("UnmatchedMethod", b.default_method_callback[1], b.layers)>>
    ELSE IF b.stream_handler # <<>>
    THEN <<StreamHandler(b.stream_handler[1])>>
    ELSE IF b.default_callback # <<>>
    THEN <<ResponseHandler("Default", b.default_callback[1], b.layers)>>
    ELSE <<>>

(* The early return of callback_information: the trail ends at this node. *)
Endpoint(b, method) ==
    IF method \in DOMAIN b.method_callbacks
    THEN <<ResponseHandler("Exact", b.method_callbacks[method], b.layers)>>
    ELSE IF b.default_method_callback # <<>>
    THEN <<ResponseHandler("UnmatchedMethod", b.default_method_callback[1], b.layers)>>
    ELSE IF b.default_callback # <<>>
    THEN <<ResponseHandler("Default", b.default_callback[1], b.layers)>>
    ELSE IF b.stream_handler # <<>>
    THEN <<StreamHandler(b.stream_handler[1])>>
    ELSE <<>>

(* PureBranch::callback_information *)
RECURSIVE callback_information(_, _, _)
RECURSIVE Deeper(_, _, _, _)

(* The child lookup of callback_information: the exact child and nothing  *)
(* else if there is one; otherwise the first matching pattern and, if it  *)
(* gave nothing, the variable child.                                      *)
Deeper(b, base, rest, method) ==
    IF base \in DOMAIN b.exact_branches
    THEN [is_var |-> FALSE,
          result |-> callback_information(b.exact_branches[base], rest, method)]
    ELSE LET i == FirstMatch(b.pattern_branches, base)
             by_pattern ==
                IF i = 0 THEN <<>>
                ELSE callback_information(b.pattern_branches[i].branch, rest, method)
         IN  [is_var |-> TRUE,
              result |->
                IF by_pattern = <<>> /\ b.variable_branch # <<>>
                THEN callback_information(b.variable_branch[1].branch, rest, method)
                ELSE by_pattern]

callback_information(b, trail, method) ==
    LET trimmed_trail == TrimStartMatches(trail, "/")
    IN  IF trimmed_trail = "" THEN Endpoint(b, method)
        ELSE LET d == Deeper(b, BaseOf(trimmed_trail), RestOf(trimmed_trail), method)
             IN  IF d.result # <<>>
                 THEN <<update(d.result[1], b.layers, d.is_var)>>
                 ELSE Fallback(b, trimmed_trail)

(* The indices PureBranch::pipeline stamps on the request. *)
VariableIndices(variable_indicators) ==
    LET n == Len(variable_indicators)
        rev == [k \in 1..n |-> variable_indicators[n + 1 - k]]
    IN  SelectSeq([k \in 1..n |-> IF rev[k] THEN k - 1 ELSE -1],
                  LAMBDA x : x >= 0)

(* enum Pipeline { Layer(function, Box<Pipeline>), Core(function) } *)
Core(core_fn) == [tag |-> "Core", f |-> core_fn, inner |-> <<>>]

Layer(function, pipeline_layer) ==
    [tag |-> "Layer", f |-> function, inner |-> <<pipeline_layer>>]

(* Mutant: the first layer of the list becomes the outermost one. *)
RECURSIVE NestedPipelineFirstOutside(_, _)
NestedPipelineFirstOutside(layers, pipeline_layer) ==
    IF layers = <<>> THEN pipeline_layer
    ELSE Layer(Head(layers),
               NestedPipelineFirstOutside(Tail(layers), pipeline_layer))

(* for function in &layers { pipeline_layer = Pipeline::Layer(function,    *)
(* Box::new(pipeline_layer)) }                                             *)
RECURSIVE NestedPipeline(_, _)
NestedPipeline(layers, pipeline_layer) ==
    IF layers = <<>> THEN pipeline_layer
    ELSE NestedPipeline(Tail(layers), Layer(Head(layers), pipeline_layer))

(* Pipeline::execute, as the sequence of functions entered and left: a     *)
(* layer of the model passes the request to the pipeline it was handed     *)
(* and returns its response, as the timing layer of the documentation.     *)
RECURSIVE execute(_)
execute(p) ==
    IF p.tag = "Core" THEN <<[event |-> "call", f |-> p.f]>>
    ELSE <<[event |-> "enter", f |-> p.f]>>
            \o execute(p.inner[1])
            \o <<[event |-> "leave", f |-> p.f]>>

(* PureBranch::pipeline: the callback with the layers around it, and the  *)
(* depth and variable indices for the request.                             *)
pipeline(pure_branch, req) ==
    LET c_info == callback_information(pure_branch, req.path, req.method)
    IN  IF c_info = <<>> THEN <<>>
        ELSE <<[kind |-> c_info[1].kind,
                tracker |-> c_info[1].tracker,
                callback |-> c_info[1].callback,
                layers |-> c_info[1].layers,
                pipeline |->
                    IF c_info[1].kind = "ResponseHandler"
                    THEN NestedPipeline(c_info[1].layers, Core(c_info[1].callback))
                    ELSE Core(c_info[1].callback),
                depth |-> Len(c_info[1].variable_indicators),
                variable_indices |-> VariableIndices(c_info[1].variable_indicators)]>>

(* percent_encoding::percent_decode_str(..).decode_utf8(): "%" and two hex *)
(* digits are one byte, anything else stands for itself.  The bytes are    *)
(* those of the characters the paths of the model are written with; a byte *)
(* above 127 on its own is not UTF-8.                                      *)
HexDigits == "0123456789ABCDEF"

HexValue(ch) == CHOOSE v \in 0..15 : SubSeq(HexDigits, v + 1, v + 1) = ch

IsHex(ch) == \E v \in 0..15 : SubSeq(HexDigits, v + 1, v + 1) = ch

Utf8 == [byte \in {37, 47, 49, 98} |->
            CASE byte = 37 -> "%" [] byte = 47 -> "/"
              [] byte = 49 -> "1" [] byte = 98 -> "b"]

RECURSIVE percent_decode_str(_)
percent_decode_str(input) ==
    IF input = "" THEN <<"">>
    ELSE LET escaped == /\ Len(input) >= 3
                        /\ SubSeq(input, 1, 1) = "%"
                        /\ IsHex(SubSeq(input, 2, 2))
                        /\ IsHex(SubSeq(input, 3, 3))
             byte == 16 * HexValue(SubSeq(input, 2, 2)) + HexValue(SubSeq(input, 3, 3))
             rest == percent_decode_str(
                        SubSeq(input, IF escaped THEN 4 ELSE 2, Len(input)))
         IN  IF rest = <<>> \/ (escaped /\ byte \notin DOMAIN Utf8) THEN <<>>
             ELSE <<(IF escaped THEN Utf8[byte] ELSE SubSeq(input, 1, 1)) \o rest[1]>>

(* Results of an extractor *)
Ok(value) == [tag |-> "Ok", value |-> value]
ExtractionBR == [tag |-> "ExtractionBR", value |-> ""]
ExtractionSE == [tag |-> "ExtractionSE", value |-> ""]

(* tuple_path!: position index of Path<(.., String, ..)>::extract.  The    *)
(* token is the one at variable_indices[index] of the tokenized path,     *)
(* percent-decoded; String::from_str does not fail.                        *)
PathExtract(path, variable_indices, index) ==
    LET trimmed_trail == TrimStartMatches(path, "/")
        tokens == tokenize(trimmed_trail)
    IN  IF index + 1 > Len(variable_indices) THEN ExtractionSE
        ELSE IF variable_indices[index + 1] + 1 > Len(tokens) THEN ExtractionSE
        ELSE LET token == percent_decode_str(tokens[variable_indices[index + 1] + 1])
             IN  IF token = <<>> THEN ExtractionBR ELSE Ok(token[1])

(* tuple_path!: Path<(String, ..)>::extract with n positions; the first    *)
(* position that fails gives the error.                                    *)
RECURSIVE PathTupleExtract(_, _, _, _)
PathTupleExtract(path, variable_indices, index, n) ==
    IF index = n THEN Ok(<<>>)
    ELSE LET token == PathExtract(path, variable_indices, index)
             others == PathTupleExtract(path, variable_indices, index + 1, n)
         IN  IF token.tag # "Ok" THEN token
             ELSE IF others.tag # "Ok" THEN others
             ELSE Ok(<<token.value>> \o others.value)

INTERNAL_SERVER_ERROR == 500

(* Error::as_response (feature full_log) *)
as_response(e) ==
    IF e.tag = "ExtractionBR" THEN BAD_REQUEST ELSE INTERNAL_SERVER_ERROR

(* What a callback did with a request: the status of its response, and     *)
(* whether the handler of the application was invoked (it answers 200).    *)
Invoked == [status |-> OK, invoked |-> TRUE]

NotInvoked(status) == [status |-> status, invoked |-> FALSE]

(* Method::to: the closure around the handler of Branch::with. *)
MethodTo(extraction) ==
    IF extraction.tag = "Ok" THEN Invoked ELSE NotInvoked(BAD_REQUEST)

(* The closure around the handler of Branch::unmatched_method_to,          *)
(* defaults_to and files; full_log is the feature of the build.            *)
CallbackOf(extraction, full_log) ==
    IF extraction.tag = "Ok" THEN Invoked
    ELSE IF full_log THEN NotInvoked(as_response(extraction))
    ELSE NotInvoked(BAD_REQUEST)

(* The status Server::dispatch answers with: the response of the pipeline *)
(* (every callback of the model answers 200), or Response::not_found().    *)
DispatchStatus(pipeline_info) ==
    IF pipeline_info = <<>> THEN NOT_FOUND ELSE OK

Task(c) ==
    \/ DispatchRead(c)
    \/ DispatchContinue(c)
    \/ DispatchBadRequest(c)
    \/ DispatchReadErr(c)
    \/ Handle(c)
    \/ DispatchWrite(c)
    \/ DispatchWriteErr(c)
    \/ UpgradeWrite(c)
    \/ Upgrade(c)
    \/ Timeout(c)

Next ==
    \/ ClientConnect
    \/ AcquirePermit
    \/ AcceptOk
    \/ AcceptErr
    \/ Shutdown
    \/ \E c \in Clients : Task(c)
    \/ \E c \in Clients : WebSocketClose(c)

RouteInit == branch = BranchNew("/") /\ handlers = 0
               /\ request = <<>> /\ info = <<>>

CallInit == response = <<>> /\ handshake = <<>>

CodecInit ==
    /\ reader = <<>> /\ writer = <<>> /\ frame = <<>> /\ wire = <<>>
    /\ tokenized = <<>> /\ io = <<>> /\ inbound = <<>>

Init ==
    /\ ServerInit /\ RouteInit /\ operands = <<>> /\ merged = <<>> /\ CallInit
    /\ CodecInit

Spec == Init /\ [][Next]_vars

\* The tokio scheduler polls every task that is ready: the accept loop takes
\* a free permit and a waiting connection, and a connection task goes on
\* until dispatch returns or its sleep elapses.
Fairness ==
    /\ WF_vars(AcquirePermit)
    /\ WF_vars(AcceptOk)
    /\ \A c \in Clients : WF_vars(Task(c))

FairSpec == Init /\ [][Next]_vars /\ Fairness

(***************************************************************************)
(* The routes an application declares and the requests it receives         *)
(***************************************************************************)

Methods == {"GET", "POST"}

(* The trails handed to Branch::new(..).with(method.to(handler)). *)
WithRoutes ==
    {<<"/", "GET">>, <<"/1", "GET">>, <<"/1", "POST">>, <<"/1/b", "GET">>,
     <<"/{regex:1}", "GET">>, <<"/{regex:.}", "GET">>, <<"/{:x}", "GET">>}

(* The trails handed to Branch::new(..).defaults_to / files /              *)
(* unmatched_method_to.                                                    *)
DefaultRoutes == {"/", "/1"}

FilesRoutes == {"/", "/1"}

UnmatchedRoutes == {"/1"}

(* The segments of a request path, and the path they spell. *)
PathSegments == {"", "1", "b", "1.b"}

RECURSIVE Join(_)
Join(segments) ==
    IF segments = <<>> THEN ""
    ELSE "/" \o Head(segments) \o Join(Tail(segments))

RequestPaths ==
    {IF segments = <<>> THEN "/" ELSE Join(segments) :
        segments \in UNION {[1..n -> PathSegments] : n \in 0..MaxSegments}}

(* branch.merge(Branch::new(trail).with(method.to(handler))) *)
MergeWith ==
    \E route \in WithRoutes :
        /\ handlers < MaxRoutes
        /\ request = <<>>
        /\ handlers' = handlers + 1
        /\ branch' = merge(branch,
                           With(BranchNew(route[1]), {route[2]}, handlers + 1))
        /\ UNCHANGED <<request, info>>
        /\ UNCHANGED <<serverVars, codecVars, mergeVars, callVars>>

(* branch.merge(Branch::new(trail).unmatched_method_to(handler)) *)
MergeUnmatchedMethodTo ==
    \E trail \in UnmatchedRoutes :
        /\ handlers < MaxRoutes
        /\ request = <<>>
        /\ handlers' = handlers + 1
        /\ branch' = merge(branch,
                           unmatched_method_to(BranchNew(trail), handlers + 1))
        /\ UNCHANGED <<request, info>>
        /\ UNCHANGED <<serverVars, codecVars, mergeVars, callVars>>

(* branch.merge(Branch::new(trail).defaults_to(handler)) *)
MergeDefaultsTo ==
    \E trail \in DefaultRoutes :
        /\ handlers < MaxRoutes
        /\ request = <<>>
        /\ handlers' = handlers + 1
        /\ branch' = merge(branch, defaults_to(BranchNew(trail), handlers + 1))
        /\ UNCHANGED <<request, info>>
        /\ UNCHANGED <<serverVars, codecVars, mergeVars, callVars>>

(* branch.merge(Branch::new(trail).files(handler)) *)
MergeFiles ==
    \E trail \in FilesRoutes :
        /\ handlers < MaxRoutes
        /\ request = <<>>
        /\ handlers' = handlers + 1
        /\ branch' = merge(branch, files(BranchNew(trail), handlers + 1))
        /\ UNCHANGED <<request, info>>
        /\ UNCHANGED <<serverVars, codecVars, mergeVars, callVars>>

(* Server::dispatch on a request that was read: the purified tree is asked *)
(* for the pipeline of the request.                                        *)
Resolve ==
    \E method \in Methods, path \in RequestPaths :
        /\ request = <<>>
        /\ request' = <<[method |-> method, path |-> path]>>
        /\ info' = pipeline(purify(branch), request'[1])
        /\ UNCHANGED <<branch, handlers>>
        /\ UNCHANGED <<serverVars, codecVars, mergeVars, callVars>>

RouteNext ==
    \/ MergeWith
    \/ MergeUnmatchedMethodTo
    \/ MergeDefaultsTo
    \/ MergeFiles
    \/ Resolve

RouteSpec == Init /\ [][RouteNext]_vars

(***************************************************************************)
(* An application that registers layers                                    *)
(***************************************************************************)

(* The trails handed to Branch::new(..).layer(..).with(..) before the      *)
(* branch is nested.                                                       *)
LayerRoutes == {"/1", "/1/b", "/{:x}"}

(* n calls of Branch::layer, with the functions first + 1 .. first + n. *)
RECURSIVE Layers(_, _, _)
Layers(b, first, n) ==
    IF n = 0 THEN b ELSE layer(Layers(b, first, n - 1), first + n)

(* branch.layer(function) *)
AddLayer ==
    /\ handlers < MaxRoutes + MaxLayers
    /\ request = <<>>
    /\ Len(branch.layers) < MaxLayers
    /\ handlers' = handlers + 1
    /\ branch' = layer(branch, handlers + 1)
    /\ UNCHANGED <<request, info>>
    /\ UNCHANGED <<serverVars, codecVars, mergeVars, callVars>>

(* branch.nest(Branch::new(trail).layer(..) .. .with(Method::Get.to(handler))) *)
NestLayered ==
    \E trail \in LayerRoutes, n \in 0..MaxLayers :
        /\ handlers + n < MaxRoutes + MaxLayers
        /\ request = <<>>
        /\ handlers' = handlers + n + 1
        /\ branch' = nest(branch,
                          With(Layers(BranchNew(trail), handlers, n),
                               {"GET"}, handlers + n + 1))
        /\ UNCHANGED <<request, info>>
        /\ UNCHANGED <<serverVars, codecVars, mergeVars, callVars>>

LayerNext ==
    \/ AddLayer
    \/ NestLayered
    \/ Resolve

LayerSpec == Init /\ [][LayerNext]_vars

(***************************************************************************)
(* An application with stream handlers                                     *)
(***************************************************************************)

(* The trails handed to Branch::new(..).stream_handler(..). *)
StreamRoutes == {"/", "/1"}

(* branch.merge(Branch::new(trail).layer(..) .. .stream_handler(handler)) *)
MergeStreamHandler ==
    \E trail \in StreamRoutes, n \in 0..1 :
        /\ handlers < MaxRoutes
        /\ request = <<>>
        /\ handlers' = handlers + n + 1
        /\ branch' = merge(branch,
                           stream_handler(Layers(BranchNew(trail), handlers, n),
                                          handlers + n + 1))
        /\ UNCHANGED <<request, info>>
        /\ UNCHANGED <<serverVars, codecVars, mergeVars, callVars>>

StreamNext ==
    \/ MergeWith
    \/ MergeUnmatchedMethodTo
    \/ MergeDefaultsTo
    \/ MergeStreamHandler
    \/ Resolve

StreamSpec == Init /\ [][StreamNext]_vars

(***************************************************************************)
(* An application with variables and patterns in its routes                *)
(***************************************************************************)

(* The trails handed to Branch::new(..).with(Method::Get.to(handler)),     *)
(* the handler taking a Path extractor.                                    *)
VariableRoutes ==
    {"/{:x}", "/1/{:x}", "/{:x}/{:y}", "/{regex:^1$}/{:y}", "/{:x}/b/{:y}"}

VariableSegments == {"", "1", "b", "%62", "%FF"}

VariablePaths ==
    {IF segments = <<>> THEN "/" ELSE Join(segments) :
        segments \in UNION {[1..n -> VariableSegments] : n \in 0..(MaxSegments + 1)}}

(* branch.merge(Branch::new(trail).with(Method::Get.to(handler))) *)
MergeVariableRoute ==
    \E trail \in VariableRoutes :
        /\ handlers < MaxRoutes
        /\ request = <<>>
        /\ handlers' = handlers + 1
        /\ branch' = merge(branch, With(BranchNew(trail), {"GET"}, handlers + 1))
        /\ UNCHANGED <<request, info>>
        /\ UNCHANGED <<serverVars, codecVars, mergeVars, callVars>>

(* Server::dispatch on a GET request for one of the paths above. *)
ResolveVariablePath ==
    \E path \in VariablePaths :
        /\ request = <<>>
        /\ request' = <<[method |-> "GET", path |-> path]>>
        /\ info' = pipeline(purify(branch), request'[1])
        /\ UNCHANGED <<branch, handlers>>
        /\ UNCHANGED <<serverVars, codecVars, mergeVars, callVars>>

(* branch.merge(Branch::new(trail).defaults_to(handler)) *)
MergeVariableDefault ==
    \E trail \in VariableRoutes :
        /\ handlers < MaxRoutes
        /\ request = <<>>
        /\ handlers' = handlers + 1
        /\ branch' = merge(branch, defaults_to(BranchNew(trail), handlers + 1))
        /\ UNCHANGED <<request, info>>
        /\ UNCHANGED <<serverVars, codecVars, mergeVars, callVars>>

(* Pipeline::execute reaches the core function: the closure made by        *)
(* Method::to or by the builder extracts the arguments of the handler, a   *)
(* Path of n strings, and invokes the handler or answers for it.           *)
Invoke ==
    \E n \in 1..MaxExtractors, full_log \in BOOLEAN :
        /\ request # <<>>
        /\ info # <<>>
        /\ response = <<>>
        /\ LET extraction == PathTupleExtract(request[1].path,
                                              info[1].variable_indices, 0, n)
               answer == IF info[1].tracker = "Exact"
                         THEN MethodTo(extraction)
                         ELSE CallbackOf(extraction, full_log)
           IN  response' = <<[extraction |-> extraction.tag,
                              full_log |-> full_log,
                              tracker |-> info[1].tracker,
                              status |-> answer.status,
                              invoked |-> answer.invoked]>>
        /\ UNCHANGED <<branch, handlers, request, info, handshake>>
        /\ UNCHANGED <<serverVars, codecVars, mergeVars>>

PathNext ==
    \/ MergeVariableRoute
    \/ MergeVariableDefault
    \/ ResolveVariablePath
    \/ Invoke

PathSpec == Init /\ [][PathNext]_vars

(***************************************************************************)
(* An application that merges three branches                               *)
(***************************************************************************)

(* The branches Branch::new(trail) with one handler, the function h.  One  *)
(* of them has a layer, the function h + LayerOffset.                      *)
LayerOffset == 10

Branches(h) ==
    {With(BranchNew("/1"), {"GET"}, h),
     With(BranchNew("/1"), {"POST"}, h),
     With(layer(BranchNew("/1"), h + LayerOffset), {"GET"}, h),
     With(BranchNew("/{regex:1}"), {"GET"}, h),
     With(BranchNew("/{regex:1}"), {"POST"}, h),
     With(BranchNew("/{regex:b}"), {"GET"}, h),
     With(BranchNew("/{regex:.}"), {"GET"}, h),
     With(BranchNew("/{:x}"), {"GET"}, h),
     unmatched_method_to(BranchNew("/1"), h),
     defaults_to(BranchNew("/1"), h),
     files(BranchNew("/1"), h),
     stream_handler(BranchNew("/1"), h)}

(* The first branch may itself be a merge of two. *)
Operands ==
    (Branches(1) \cup {merge(x, y) : x \in Branches(1), y \in Branches(2)})
        \X Branches(3) \X Branches(4)

MergeInit ==
    /\ ServerInit /\ RouteInit /\ CallInit /\ CodecInit
    /\ operands \in Operands
    /\ merged = <<>>

Merged(lhs, rhs) == [lhs |-> lhs, rhs |-> rhs, result |-> merge(lhs, rhs)]

(* a.merge(b) and b.merge(c) *)
MergeTwo ==
    /\ merged = <<>>
    /\ merged' = <<Merged(operands[1], operands[2]),
                   Merged(operands[2], operands[3])>>
    /\ UNCHANGED <<branch, handlers, request, info, operands>>
    /\ UNCHANGED <<serverVars, codecVars, callVars>>

(* a.merge(b).merge(c) and a.merge(b.merge(c)) *)
MergeThree ==
    /\ Len(merged) = 2
    /\ merged' = merged \o <<Merged(merged[1].result, operands[3]),
                              Merged(operands[1], merged[2].result)>>
    /\ UNCHANGED <<branch, handlers, request, info, operands>>
    /\ UNCHANGED <<serverVars, codecVars, callVars>>

MergeNext ==
    \/ MergeTwo
    \/ MergeThree

MergeSpec == MergeInit /\ [][MergeNext]_vars

(***************************************************************************)
(* The WebSocket handshake (src/cataclysm/src/ws.rs, src/src/server.rs)    *)
(***************************************************************************)

(* The headers of a request that matter to the handshake: the first value  *)
(* of each, None if the header is missing; for Sec-WebSocket-Protocol the  *)
(* protocols its value lists.  protocol is WebSocketHandshake.protocol.    *)
Handshakes ==
    [upgrade : {<<>>, <<"websocket">>, <<"h2c">>},
     connection : {<<>>, <<"Upgrade">>, <<"keep-alive, Upgrade">>, <<"close">>},
     sec_websocket_key : {<<>>, <<"dGhlIHNhbXBsZSBub25jZQ==">>},
     sec_websocket_protocol : {<<>>, <<"mqtt">>, <<"mqtt", "chat">>},
     protocol : {<<>>, <<"chat">>},
     by : {None}, written : {<<>>}, stream : {<<>>}]

HandshakeInit ==
    /\ ServerInit /\ RouteInit /\ CodecInit
    /\ operands = <<>> /\ merged = <<>>
    /\ response = <<>>
    /\ handshake \in Handshakes

(* The test both handshakes start with. *)
UpgradeRequested(req) ==
    /\ req.upgrade = <<"websocket">>
    /\ req.connection \in {<<"Upgrade">>, <<"keep-alive, Upgrade">>}

(* WebSocketHandshake::perform: what stream.response wrote, and the         *)
(* WebSocketStream of Ok(..), on which the caller starts the read loop.    *)
perform(req) ==
    IF UpgradeRequested(req)
    THEN IF req.sec_websocket_key # <<>>
         THEN IF req.protocol # <<>>
              THEN IF req.sec_websocket_protocol # <<>>
                   THEN IF \E i \in 1..Len(req.sec_websocket_protocol) :
                               req.sec_websocket_protocol[i] = req.protocol[1]
                        THEN [written |-> <<SWITCHING_PROTOCOLS>>,
                              stream |-> <<"WebSocketStream">>]
                        ELSE [written |-> <<BAD_REQUEST>>, stream |-> <<>>]
                   ELSE [written |-> <<BAD_REQUEST>>, stream |-> <<>>]
              ELSE [written |-> <<SWITCHING_PROTOCOLS>>,
                    stream |-> <<"WebSocketStream">>]
         ELSE [written |-> <<BAD_REQUEST>>, stream |-> <<>>]
    ELSE [written |-> <<>>, stream |-> <<>>]

(* The upgrade branch of Server::dispatch: handler tells whether the path  *)
(* has a WebSocket handler, status is what the pipeline answers when the   *)
(* request is not taken for an upgrade.                                    *)
dispatch_upgrade(req, handler, status) ==
    IF UpgradeRequested(req)
    THEN IF req.sec_websocket_key # <<>>
         THEN IF handler
              THEN [written |-> <<SWITCHING_PROTOCOLS>>,
                    stream |-> <<"WebSocketThread">>]
              ELSE [written |-> <<NOT_FOUND>>, stream |-> <<>>]
         ELSE [written |-> <<BAD_REQUEST>>, stream |-> <<>>]
    ELSE [written |-> <<status>>, stream |-> <<>>]

(* A stream handler calls WebSocketHandshake::perform(stream, request). *)
Perform ==
    /\ handshake.by = None
    /\ handshake' = [handshake EXCEPT !.by = "perform",
                                      !.written = perform(handshake).written,
                                      !.stream = perform(handshake).stream]
    /\ UNCHANGED <<branch, handlers, request, info, response>>
    /\ UNCHANGED <<serverVars, codecVars, mergeVars>>

(* Server::dispatch gets the request. *)
DispatchUpgrade ==
    \E handler \in BOOLEAN, status \in {OK, NOT_FOUND} :
        /\ handshake.by = None
        /\ handshake' =
              [handshake EXCEPT
                  !.by = "dispatch",
                  !.written = dispatch_upgrade(handshake, handler, status).written,
                  !.stream = dispatch_upgrade(handshake, handler, status).stream]
        /\ UNCHANGED <<branch, handlers, request, info, response>>
        /\ UNCHANGED <<serverVars, codecVars, mergeVars>>

HandshakeNext ==
    \/ Perform
    \/ DispatchUpgrade

HandshakeSpec == HandshakeInit /\ [][HandshakeNext]_vars

(***************************************************************************)
(* The WebSocket read loops of src/cataclysm-ws: the one of                *)
(* WebSocketCustomChild::spawn (web_socket_reader.rs) and the one of       *)
(* WebSocketThread::spawn, read_frame and read_loop (web_socket_thread.rs).*)
(* reader.reads is what each read of the socket gave, reader.calls the     *)
(* callbacks of the handler called so far, reader.buf tells whether the    *)
(* buffer of WebSocketThread::read_frame holds bytes.                      *)
(***************************************************************************)
\* number of reads of the socket by one read loop
MaxReads == 3

\* the frames a read can complete
Frames == {"Text", "Binary", "Ping", "Pong", "Close"}

\* FrameParseError of error.rs; NullContent needs an empty slice, which no
\* read of one byte or more gives
FrameParseErrors ==
    {"WrongFinRSV", "Incomplete", "Malformed", "InvalidUtf8", "UnsupportedOpCode"}

\* what a read of the socket gives: a frame, an error of the socket, the end
\* of the stream, or bytes Frame::parse rejects
Reads == Frames \cup {"Io", "Eof"} \cup FrameParseErrors

ReaderInit ==
    /\ ServerInit /\ RouteInit /\ operands = <<>> /\ merged = <<>> /\ CallInit
    /\ writer = <<>> /\ frame = <<>> /\ wire = <<>> /\ tokenized = <<>>
    /\ io = <<>> /\ inbound = <<>>
    /\ reader \in {r \in [loop : {"WebSocketCustomChild", "WebSocketThread"},
                          automatic_close : BOOLEAN,
                          pc : {"spawned"}, buf : {"empty"},
                          reads : {<<>>}, calls : {<<>>}] :
                     r.loop = "WebSocketThread" => r.automatic_close}

(* Both spawn functions start their task with on_open. *)
ReaderSpawn ==
    /\ reader.pc = "spawned"
    /\ reader' = [reader EXCEPT !.pc = "reading",
                                !.calls = Append(@, "on_open")]
    /\ UNCHANGED <<serverVars, branch, handlers, request, info, mergeVars,
                   callVars, writer, frame, wire, tokenized, io, inbound>>

(* One turn of the loop of WebSocketCustomChild::spawn: try_read_frame     *)
(* gives Ok(frame) or an error; the end of the stream is the error         *)
(* ConnectionReset of read_bytes.                                          *)
CustomChildRead ==
    \E read \in Reads :
        /\ reader.loop = "WebSocketCustomChild"
        /\ reader.pc = "reading"
        /\ Len(reader.reads) < MaxReads
        /\ reader' =
              IF read \in Frames
              THEN IF read = "Close" /\ reader.automatic_close
                   THEN [reader EXCEPT !.reads = Append(@, read),
                                       !.calls = Append(@, "on_close(true)"),
                                       !.pc = "ended"]
                   ELSE [reader EXCEPT !.reads = Append(@, read),
                                       !.calls = Append(@, "on_message")]
              ELSE IF read = "Incomplete"
                   THEN [reader EXCEPT !.reads = Append(@, read)]
                   ELSE [reader EXCEPT !.reads = Append(@, read),
                                       !.calls = Append(@, "on_close(false)"),
                                       !.pc = "ended"]
        /\ UNCHANGED <<serverVars, branch, handlers, request, info, mergeVars,
                       callVars, writer, frame, wire, tokenized, io, inbound>>

(* One read of the socket by WebSocketThread::read_frame and what          *)
(* read_loop does with its result.  An error of read_buf and the end of    *)
(* the stream on a buffer that holds bytes leave read_loop through the     *)
(* question mark; a corrupt buffer is cleared and the loop reads on; a     *)
(* frame that carries a message (Text, Binary) goes to on_message; a frame *)
(* without message is dropped unless it is a close frame.                  *)
ThreadRead ==
    \E read \in Reads :
        /\ reader.loop = "WebSocketThread"
        /\ reader.pc = "reading"
        /\ Len(reader.reads) < MaxReads
        /\ reader' =
              IF read = "Io"
              THEN [reader EXCEPT !.reads = Append(@, read), !.pc = "ended"]
              ELSE IF read = "Eof"
              THEN IF reader.buf = "empty"
                   THEN [reader EXCEPT !.reads = Append(@, read),
                                       !.calls = Append(@, "on_close(false)"),
                                       !.pc = "ended"]
                   ELSE [reader EXCEPT !.reads = Append(@, read),
                                       !.pc = "ended"]
              ELSE IF read = "Incomplete"
              THEN [reader EXCEPT !.reads = Append(@, read), !.buf = "partial"]
              ELSE IF read \in FrameParseErrors
              THEN [reader EXCEPT !.reads = Append(@, read), !.buf = "empty"]
              ELSE IF read \in {"Text", "Binary"}
              THEN [reader EXCEPT !.reads = Append(@, read), !.buf = "empty",
                                  !.calls = Append(@, "on_message")]
              ELSE IF read = "Close"
              THEN [reader EXCEPT !.reads = Append(@, read), !.buf = "empty",
                                  !.calls = Append(@, "on_close(true)"),
                                  !.pc = "ended"]
              ELSE [reader EXCEPT !.reads = Append(@, read), !.buf = "empty"]
        /\ UNCHANGED <<serverVars, branch, handlers, request, info, mergeVars,
                       callVars, writer, frame, wire, tokenized, io, inbound>>

ReaderNext ==
    \/ ReaderSpawn
    \/ CustomChildRead
    \/ ThreadRead

ReaderSpec == ReaderInit /\ [][ReaderNext]_vars

(***************************************************************************)
(* WebSocketWriter::write of src/cataclysm-ws/src/web_socket_writer.rs,    *)
(* called through &self by several tasks that share the writer.  A frame   *)
(* is cut in chunks of CHUNK_SIZE bytes; every turn of the loop awaits     *)
(* writable() and calls try_write once, which puts some of the bytes of    *)
(* the current chunk on the socket.  Byte k of the frame of task t is      *)
(* <<t, k>>.                                                               *)
(***************************************************************************)
\* number of tasks that share the writer
NumWriters == 2
\* number of bytes of a serialized frame, the two header bytes included
MaxFrameLen == 4
\* CHUNK_SIZE (4096 in the source) on the scale of MaxFrameLen
ChunkSize == 2

Writers == 1..NumWriters

WriterInit ==
    /\ ServerInit /\ RouteInit /\ operands = <<>> /\ merged = <<>> /\ CallInit
    /\ reader = <<>> /\ frame = <<>> /\ wire = <<>> /\ tokenized = <<>>
    /\ io = <<>> /\ inbound = <<>>
    /\ writer = [socket |-> <<>>,
                 task |-> [t \in Writers |->
                              [pc |-> "idle", content |-> 0,
                               chunk |-> 0, advanced |-> 0,
                               would_block |-> 0]]]

\* Mutant: the bytes the chunk had before it was advanced.
RemainingBeforeAdvance(w) ==
    LET last == IF w.chunk + ChunkSize - 1 < w.content
                THEN w.chunk + ChunkSize - 1 ELSE w.content
    IN  last - w.chunk + 1

\* the bytes of the current chunk that are still to be written
Remaining(w) ==
    LET last == IF w.chunk + ChunkSize - 1 < w.content
                THEN w.chunk + ChunkSize - 1 ELSE w.content
    IN  last - (w.chunk + w.advanced) + 1

(* A task calls text, bytes, ping, pong or close: write serializes the     *)
(* frame and takes its first chunk.                                        *)
Write(t) ==
    \E len \in 2..MaxFrameLen :
        /\ writer.task[t].pc = "idle"
        /\ writer' = [writer EXCEPT !.task[t] =
                         [pc |-> "writable", content |-> len,
                          chunk |-> 1, advanced |-> 0, would_block |-> 0]]
        /\ UNCHANGED <<serverVars, branch, handlers, request, info, mergeVars,
                       callVars, reader, frame, wire, tokenized, io, inbound>>

(* try_write returns Ok(n): n bytes of the current chunk are on the        *)
(* socket; the chunk is advanced, or the next chunk is taken, or the       *)
(* write is over.                                                          *)
TryWrite(t) ==
    \E n \in 1..ChunkSize :
        LET w == writer.task[t]
            from == w.chunk + w.advanced
        IN  /\ w.pc = "writable"
            /\ n <= Remaining(w)
            /\ writer' =
                  [writer EXCEPT
                      !.socket = @ \o [k \in 1..n |-> <<t, from + k - 1>>],
                      !.task[t] =
                          IF n # Remaining(w)
                          THEN [w EXCEPT !.advanced = @ + n]
                          ELSE IF w.chunk + ChunkSize <= w.content
                          THEN [w EXCEPT !.chunk = @ + ChunkSize, !.advanced = 0]
                          ELSE [w EXCEPT !.pc = "ok"]]
            /\ UNCHANGED <<serverVars, branch, handlers, request, info,
                           mergeVars, callVars, reader, frame, wire, tokenized, io, inbound>>

(* try_write returns WouldBlock: the turn is repeated. *)
TryWriteWouldBlock(t) ==
    /\ writer.task[t].pc = "writable"
    /\ writer.task[t].would_block < MaxWouldBlock
    /\ writer' = [writer EXCEPT !.task[t].would_block = @ + 1]
    /\ UNCHANGED <<serverVars, branch, handlers, request, info, mergeVars,
                   callVars, reader, frame, wire, tokenized, io, inbound>>

(* try_write returns an error other than WouldBlock: write breaks with     *)
(* Err(Error::Io).                                                         *)
TryWriteErr(t) ==
    /\ writer.task[t].pc = "writable"
    /\ writer' = [writer EXCEPT !.task[t].pc = "err"]
    /\ UNCHANGED <<serverVars, branch, handlers, request, info, mergeVars,
                   callVars, reader, frame, wire, tokenized, io, inbound>>

WriterNext ==
    \E t \in Writers :
        \/ Write(t)
        \/ TryWrite(t)
        \/ TryWriteWouldBlock(t)
        \/ TryWriteErr(t)

WriterSpec == WriterInit /\ [][WriterNext]_vars

(***************************************************************************)
(* The frame codec of src/cataclysm-ws/src/frame.rs: From<Frame> for       *)
(* Vec<u8> and Frame::parse.  Bytes are numbers of 0..255, a slice is a    *)
(* sequence of bytes, a Frame is a record of inner_op_code, masking_key    *)
(* (an Option) and message; a message is its kind and its payload, which   *)
(* is empty for Ping, Pong and Close as in Frame::parse.  The text of the  *)
(* model is ASCII, so its bytes are its characters.                        *)
(***************************************************************************)
\* payloads of 0..MaxPayload bytes are drawn next to the boundary lengths
MaxPayload == 2

FIN_RSV == 128
OP_CODE_CONTINUATION == 0
OP_CODE_TEXT == 1
OP_CODE_BINARY == 2
OP_CODE_CLOSE == 8
OP_CODE_PING == 9
OP_CODE_PONG == 10

\* v ^ w on u8
Xor(v, w) ==
      ((v + w) % 2)
    + 2 * (((v \div 2) + (w \div 2)) % 2)
    + 4 * (((v \div 4) + (w \div 4)) % 2)
    + 8 * (((v \div 8) + (w \div 8)) % 2)
    + 16 * (((v \div 16) + (w \div 16)) % 2)
    + 32 * (((v \div 32) + (w \div 32)) % 2)
    + 64 * (((v \div 64) + (w \div 64)) % 2)
    + 128 * (((v \div 128) + (w \div 128)) % 2)

\* to_be_bytes of an unsigned integer of width bytes (values under 2^31)
to_be_bytes(n, width) ==
    [i \in 1..width |->
        IF width - i > 3 THEN 0 ELSE (n \div (256 ^ (width - i))) % 256]

\* u16, u32 and u64::from_be_bytes
RECURSIVE from_be_bytes(_)
from_be_bytes(bytes) ==
    IF bytes = <<>> THEN 0
    ELSE 256 * from_be_bytes(SubSeq(bytes, 1, Len(bytes) - 1)) + bytes[Len(bytes)]

\* the closure both directions map over the payload: v ^ masking_bytes[idx % 4]
Masked(payload, masking_bytes) ==
    IF payload = <<>> THEN <<>>
    ELSE [idx \in 1..Len(payload) |->
             Xor(payload[idx], masking_bytes[((idx - 1) % 4) + 1])]

\* a length 65536 is written as a u16
LengthBytesU16To65536(payload_length, mask_bit) ==
    IF payload_length < 126
    THEN <<payload_length + mask_bit>>
    ELSE IF payload_length <= 65536
    THEN <<126 + mask_bit>> \o to_be_bytes(payload_length % 65536, 2)
    ELSE <<127 + mask_bit>> \o to_be_bytes(payload_length, 8)

(* The second byte of a serialized frame and the extended length after it. *)
LengthBytes(payload_length, mask_bit) ==
    IF payload_length < 126
    THEN <<payload_length + mask_bit>>
    ELSE IF payload_length <= 65535
    THEN <<126 + mask_bit>> \o to_be_bytes(payload_length, 2)
    ELSE <<127 + mask_bit>> \o to_be_bytes(payload_length, 8)

(* From<Frame> for Vec<u8> *)
into_bytes(source) ==
    LET payload == source.message.payload
        content == <<Xor(FIN_RSV, source.inner_op_code)>>
                   \o LengthBytes(Len(payload),
                                  IF source.masking_key # <<>> THEN 128 ELSE 0)
    IN  IF source.masking_key # <<>>
        THEN LET masking_bytes == to_be_bytes(source.masking_key[1], 4)
             IN  content \o masking_bytes \o Masked(payload, masking_bytes)
        ELSE content \o payload

Err(e) == [tag |-> "Err", value |-> e]

\* an index past the end of the slice
Panic == [tag |-> "Panic", value |-> "index out of bounds"]

(* Frame::parse.  candidate[k] of the source is candidate[k + 1] here.     *)
parse(candidate) ==
    IF candidate = <<>> THEN Err("NullContent")
    ELSE IF Xor(candidate[1], 255 - FIN_RSV) \div 16 # 15 THEN Err("WrongFinRSV")
    ELSE IF Len(candidate) < 2 THEN Panic
    ELSE
    LET min_length == candidate[2] % 128
        masked == candidate[2] \div 128 = 1
    IN  IF min_length = 126 /\ Len(candidate) < 4 THEN Err("Malformed")
        ELSE IF min_length = 127 /\ Len(candidate) < 10 THEN Err("Malformed")
        ELSE
        LET length == IF min_length = 126
                      THEN from_be_bytes(SubSeq(candidate, 3, 4))
                      ELSE IF min_length = 127
                      THEN from_be_bytes(SubSeq(candidate, 3, 10))
                      ELSE min_length
            offset == (IF min_length = 126 THEN 4
                       ELSE IF min_length = 127 THEN 10 ELSE 2)
                      + (IF masked THEN 4 ELSE 0)
        IN  IF masked /\ Len(candidate) < offset THEN Panic
            ELSE IF Len(candidate) < offset + length THEN Err("Incomplete")
            ELSE
            LET masking_key == IF masked
                               THEN <<SubSeq(candidate, offset - 3, offset)>>
                               ELSE <<>>
                inner_op_code == candidate[1] % 16
                slice == SubSeq(candidate, offset + 1, offset + length)
                payload == IF masked THEN Masked(slice, masking_key[1])
                           ELSE slice
                frame_of(message) ==
                    Ok([inner_op_code |-> inner_op_code,
                        masking_key |-> IF masked
                                        THEN <<from_be_bytes(masking_key[1])>>
                                        ELSE <<>>,
                        message |-> message])
            IN  CASE inner_op_code = OP_CODE_TEXT ->
                        IF \A idx \in 1..Len(payload) : payload[idx] < 128
                        THEN frame_of([kind |-> "Text", payload |-> payload])
                        ELSE Err("InvalidUtf8")
                  [] inner_op_code = OP_CODE_BINARY ->
                        frame_of([kind |-> "Binary", payload |-> payload])
                  [] inner_op_code = OP_CODE_PING ->
                        frame_of([kind |-> "Ping", payload |-> <<>>])
                  [] inner_op_code = OP_CODE_PONG ->
                        frame_of([kind |-> "Pong", payload |-> <<>>])
                  [] inner_op_code = OP_CODE_CLOSE ->
                        frame_of([kind |-> "Close", payload |-> <<>>])
                  [] OTHER -> Err("UnsupportedOpCode")

\* the payload lengths of the frames of the model
PayloadLengths == (0..MaxPayload) \cup {125, 126, 127, 65535, 65536}

\* a payload of ASCII bytes
Payload(length, first) ==
    IF length = 0 THEN <<>> ELSE [idx \in 1..length |-> (first + idx) % 128]

\* the frames an endpoint sends: Frame::text, Frame::binary, Frame::close and
\* the Ping and Pong frames, without masking key (a server) or with one
SentFrames ==
    LET keys == {<<>>, <<16909060>>, <<2141965807>>}
        payloads == {Payload(length, 0) : length \in PayloadLengths}
                    \cup {Payload(length, 64) : length \in 0..MaxPayload}
    IN  {[inner_op_code |-> IF kind = "Text" THEN OP_CODE_TEXT ELSE OP_CODE_BINARY,
          masking_key |-> key,
          message |-> [kind |-> kind, payload |-> payload]] :
            kind \in {"Text", "Binary"}, key \in keys, payload \in payloads}
        \cup
        {[inner_op_code |-> CASE kind = "Ping" -> OP_CODE_PING
                              [] kind = "Pong" -> OP_CODE_PONG
                              [] kind = "Close" -> OP_CODE_CLOSE,
          masking_key |-> key,
          message |-> [kind |-> kind, payload |-> <<>>]] :
            kind \in {"Ping", "Pong", "Close"}, key \in keys}

\* the slices a read can hand to Frame::parse before a whole header has
\* arrived: the first bytes of the header of a frame of one byte
ShortSlices ==
    LET head_of(b0, b1) ==
            <<b0, b1>>
            \o (IF b1 % 128 = 126 THEN <<0, 1>>
                ELSE IF b1 % 128 = 127 THEN <<0, 0, 0, 0, 0, 0, 0, 1>>
                ELSE <<>>)
            \o (IF b1 >= 128 THEN <<1, 2, 3, 4>> ELSE <<>>)
    IN  UNION {{SubSeq(head_of(b0, b1), 1, n) : n \in 1..Len(head_of(b0, b1))} :
                  b0 \in {129, 130, 136, 137, 1, 193},
                  b1 \in {1, 126, 127, 129, 254, 255}}

\* whole frames of one byte of payload with each of the sixteen op codes
OpCodeSlices == {<<FIN_RSV + op_code, 1, 97>> : op_code \in 0..15}

FrameInit ==
    /\ ServerInit /\ RouteInit /\ operands = <<>> /\ merged = <<>> /\ CallInit
    /\ reader = <<>> /\ writer = <<>> /\ wire = <<>> /\ tokenized = <<>>
    /\ io = <<>> /\ inbound = <<>>
    /\ frame \in {[source |-> <<f>>, content |-> <<>>, parsed |-> <<>>] :
                     f \in SentFrames}
                 \cup
                 {[source |-> <<>>, content |-> <<c>>, parsed |-> <<>>] :
                     c \in ShortSlices \cup OpCodeSlices}

(* An endpoint turns a frame into bytes to write it. *)
FrameInto ==
    /\ frame.source # <<>>
    /\ frame.content = <<>>
    /\ frame' = [frame EXCEPT !.content = <<into_bytes(frame.source[1])>>]
    /\ UNCHANGED <<serverVars, branch, handlers, request, info, mergeVars,
                   callVars, reader, writer, wire, tokenized, io, inbound>>

(* The other endpoint calls Frame::parse on the bytes it has read. *)
FrameParse ==
    /\ frame.content # <<>>
    /\ frame.parsed = <<>>
    /\ frame' = [frame EXCEPT !.parsed = <<parse(frame.content[1])>>]
    /\ UNCHANGED <<serverVars, branch, handlers, request, info, mergeVars,
                   callVars, reader, writer, wire, tokenized, io, inbound>>

FrameNext ==
    \/ FrameInto
    \/ FrameParse

FrameSpec == FrameInit /\ [][FrameNext]_vars

(***************************************************************************)
(* Response of src/cataclysm/src/http/response.rs: the builder (From,      *)
(* header, body), serialize and parse.  The headers are a map from a name  *)
(* to the sequence of its values; bytes are the characters of a string.    *)
(* serialize walks the HashMap in an order the program does not fix: order *)
(* is that order, a sequence of the names.                                 *)
(***************************************************************************)
\* number of calls of Response::header on one response
MaxHeaders == 2

\* format!("{}", n) of an unsigned integer
RECURSIVE Decimal(_)
Decimal(n) ==
    IF n < 10 THEN SubSeq("0123456789", n + 1, n + 1)
    ELSE Decimal(n \div 10) \o SubSeq("0123456789", (n % 10) + 1, (n % 10) + 1)

\* str::parse::<u32> of a string of digits: Some(n), or None
RECURSIVE parse_u32(_)
parse_u32(digits) ==
    LET last == SubSeq(digits, Len(digits), Len(digits))
        init == SubSeq(digits, 1, Len(digits) - 1)
    IN  IF digits = "" \/ ~ \E d \in 0..9 : Decimal(d) = last THEN <<>>
        ELSE LET d == CHOOSE d \in 0..9 : Decimal(d) = last
             IN  IF init = "" THEN <<d>>
                 ELSE IF parse_u32(init) = <<>> THEN <<>>
                 ELSE <<10 * parse_u32(init)[1] + d>>

\* str::find: the place of the first pat in s, counted from 1, or 0
Find(s, pat) ==
    LET places == {k \in 1..(Len(s) - Len(pat) + 1) :
                      SubSeq(s, k, k + Len(pat) - 1) = pat}
    IN  IF places = {} THEN 0 ELSE CHOOSE k \in places : \A l \in places : k <= l

\* str::split
RECURSIVE SplitStr(_, _)
SplitStr(s, pat) ==
    IF Find(s, pat) = 0 THEN <<s>>
    ELSE <<SubSeq(s, 1, Find(s, pat) - 1)>>
         \o SplitStr(SubSeq(s, Find(s, pat) + Len(pat), Len(s)), pat)

\* str::trim_end
RECURSIVE trim_end(_)
trim_end(s) ==
    IF s # "" /\ SubSeq(s, Len(s), Len(s)) \in {" ", "\t", "\r", "\n"}
    THEN trim_end(SubSeq(s, 1, Len(s) - 1))
    ELSE s

(* From<(u32, A)> for Response *)
ResponseFrom(code, text) ==
    [protocol |-> "HTTP/1.1", status |-> <<code, text>>,
     headers |-> EmptyMap, content |-> ""]

(* self.headers.entry(key).or_insert_with(|| Vec::new()).push(value), as   *)
(* Response::header and Response::serialize do it.                         *)
header(self, key, value) ==
    [self EXCEPT !.headers =
        Put(@, key, Append(IF key \in DOMAIN @ THEN @[key] ELSE <<>>, value))]

(* Response::serialize(&mut self): the response it leaves and the bytes.   *)
Response_serialize(self, order) ==
    LET sent == header(self, "Content-Length", Decimal(Len(self.content)))
        RECURSIVE Lines(_, _)
        Lines(header_name, headers) ==
            IF headers = <<>> THEN ""
            ELSE header_name \o ": " \o Head(headers) \o "\r\n"
                 \o Lines(header_name, Tail(headers))
        RECURSIVE AllLines(_)
        AllLines(names) ==
            IF names = <<>> THEN ""
            ELSE Lines(Head(names), sent.headers[Head(names)])
                 \o AllLines(Tail(names))
    IN  [self |-> sent,
         bytes |-> self.protocol \o " " \o Decimal(self.status[1]) \o " "
                   \o self.status[2] \o "\r\n"
                   \o AllLines(order) \o "\r\n" \o self.content]

(* Response::parse *)
Response_parse(bytes) ==
    LET split_index == Find(bytes, "\r\n\r\n")
    IN  IF split_index = 0 THEN Err("no end of header was found")
        ELSE
        LET content == SubSeq(bytes, split_index + 4, Len(bytes))
            lines == SplitStr(SubSeq(bytes, 1, split_index - 1), "\r\n")
            tokens == SplitStr(lines[1], " ")
            RECURSIVE JoinTokens(_)
            JoinTokens(k) ==
                IF k > Len(tokens) THEN ""
                ELSE tokens[k] \o (IF k < Len(tokens) THEN " " ELSE "")
                     \o JoinTokens(k + 1)
            RECURSIVE Headers(_)
            Headers(k) ==
                IF k < 2 THEN EmptyMap
                ELSE LET idx == Find(lines[k], ":")
                         key == SubSeq(lines[k], 1, idx - 1)
                         value == trim_end(TrimStartMatches(
                                     SubSeq(lines[k], idx, Len(lines[k])), ": "))
                         headers == Headers(k - 1)
                     IN  Put(headers, key,
                             Append(IF key \in DOMAIN headers
                                    THEN headers[key] ELSE <<>>, value))
        IN  IF Len(tokens) < 3
            THEN Err("responses's first has incorrect format")
            ELSE IF parse_u32(tokens[2]) = <<>> THEN Err("invalid digit")
            ELSE IF \E k \in 2..Len(lines) : Find(lines[k], ":") = 0
            THEN Err("corrupted header missing colon")
            ELSE Ok([protocol |-> tokens[1],
                     status |-> <<parse_u32(tokens[2])[1], JoinTokens(3)>>,
                     headers |-> Headers(Len(lines)),
                     content |-> content])

\* the headers an application gives a response: field values of HTTP, which
\* have no white space around them
HeaderFields ==
    {"Content-Length", "X"} \X {"2", "a:b", ": a"}

\* the responses of the model: a status, up to MaxHeaders calls of header,
\* and a body
Responses ==
    LET RECURSIVE Built(_, _)
        Built(self, fields) ==
            IF fields = <<>> THEN self
            ELSE Built(header(self, Head(fields)[1], Head(fields)[2]),
                       Tail(fields))
    IN  {[Built(ResponseFrom(status[1], status[2]), fields)
             EXCEPT !.content = body] :
            status \in {<<OK, "OK">>, <<NOT_FOUND, "Not Found">>},
            fields \in UNION {[1..n -> HeaderFields] : n \in 0..MaxHeaders},
            body \in {"", "hi"}}

WireInit ==
    /\ ServerInit /\ RouteInit /\ operands = <<>> /\ merged = <<>> /\ CallInit
    /\ reader = <<>> /\ writer = <<>> /\ frame = <<>> /\ tokenized = <<>>
    /\ io = <<>> /\ inbound = <<>>
    /\ wire \in {[response |-> r, sent |-> <<>>, bytes |-> <<>>,
                  parsed |-> <<>>] : r \in Responses}

(* The server serializes the response to write it. *)
Serialize ==
    /\ wire.bytes = <<>>
    /\ \E order \in [1..Cardinality(DOMAIN wire.response.headers
                                     \cup {"Content-Length"})
                       -> DOMAIN wire.response.headers \cup {"Content-Length"}] :
          /\ \A i, j \in DOMAIN order : order[i] = order[j] => i = j
          /\ wire' = [wire EXCEPT
                         !.sent = <<Response_serialize(wire.response, order).self>>,
                         !.bytes = <<Response_serialize(wire.response, order).bytes>>]
    /\ UNCHANGED <<serverVars, branch, handlers, request, info, mergeVars,
                   callVars, reader, writer, frame, tokenized, io, inbound>>

(* A client parses the bytes. *)
ParseResponse ==
    /\ wire.bytes # <<>>
    /\ wire.parsed = <<>>
    /\ wire' = [wire EXCEPT !.parsed = <<Response_parse(wire.bytes[1])>>]
    /\ UNCHANGED <<serverVars, branch, handlers, request, info, mergeVars,
                   callVars, reader, writer, frame, tokenized, io, inbound>>

WireNext ==
    \/ Serialize
    \/ ParseResponse

WireSpec == WireInit /\ [][WireNext]_vars

(***************************************************************************)
(* The tokenizer on its own: Tokenizable::tokenize and tokenize_once of    *)
(* src/cataclysm/src/branch.rs applied to a string.                        *)
(***************************************************************************)
\* number of characters of a tokenized string
MaxChars == 4

TokenInit ==
    /\ ServerInit /\ RouteInit /\ operands = <<>> /\ merged = <<>> /\ CallInit
    /\ reader = <<>> /\ writer = <<>> /\ frame = <<>> /\ wire = <<>>
    /\ io = <<>> /\ inbound = <<>>
    /\ LET RECURSIVE Strings(_)
           Strings(n) ==
               IF n = 0 THEN {""}
               ELSE {str \o ch : str \in Strings(n - 1),
                                 ch \in {"/", "\\", "a", "b"}}
       IN  tokenized \in {[path |-> r, tokens |-> <<>>, once |-> <<>>] :
                             r \in UNION {Strings(n) : n \in 0..MaxChars}}

(* r.tokenize() *)
Tokenize ==
    /\ tokenized.tokens = <<>>
    /\ tokenized' = [tokenized EXCEPT !.tokens = <<tokenize(tokenized.path)>>]
    /\ UNCHANGED <<serverVars, branch, handlers, request, info, mergeVars,
                   callVars, reader, writer, frame, wire, io, inbound>>

(* r.tokenize_once(): None is <<>>, Some((base, rest)) is <<<<base, rest>>>> *)
TokenizeOnce ==
    /\ tokenized.once = <<>>
    /\ tokenized' = [tokenized EXCEPT !.once = <<tokenize_once(tokenized.path)>>]
    /\ UNCHANGED <<serverVars, branch, handlers, request, info, mergeVars,
                   callVars, reader, writer, frame, wire, io, inbound>>

TokenNext ==
    \/ Tokenize
    \/ TokenizeOnce

TokenSpec == TokenInit /\ [][TokenNext]_vars

(***************************************************************************)
(* One connection: Server::dispatch_read, Server::dispatch and             *)
(* Server::dispatch_write on the bytes of the socket (src/src/server.rs)   *)
(***************************************************************************)

(* The body a request carries has at most MaxBody bytes, and a serialized  *)
(* response has ResponseLen bytes.                                         *)
MaxBody == 2

ResponseLen == 2

(* The bytes of a request: "h" is the request line with the header lines,  *)
(* "T" the terminator "\r\n\r\n" and "b" a byte of the body.               *)
RequestBytes(body) == <<"h", "T">> \o [k \in 1..body |-> "b"]

(* Request::parse: the header ends at the first terminator; header_size    *)
(* counts the header and the terminator, content is what follows.          *)
Request_parse(source) ==
    LET ends == {k \in 1..Len(source) : source[k] = "T"}
    IN  IF ends = {} THEN Err("no end of header was found")
        ELSE LET split_index == CHOOSE k \in ends : \A j \in ends : k <= j
             IN  IF SubSeq(source, 1, split_index - 1) # <<"h">>
                 THEN Err("request's first has incorrect format")
                 ELSE Ok([header_size |-> split_index,
                          content |-> SubSeq(source, split_index + 1, Len(source))])

(* response.serialize(): the bytes of the response with the given status. *)
ResponseBytes(status) == [k \in 1..ResponseLen |-> <<status, k>>]

(* The peer has connected and is about to send a request: the value of     *)
(* its Content-Length header if it has one, whether it has the header      *)
(* Expect: 100-continue, and the bytes the peer is going to send.          *)
IoInit ==
    /\ ServerInit /\ RouteInit /\ operands = <<>> /\ merged = <<>> /\ CallInit
    /\ reader = <<>> /\ writer = <<>> /\ frame = <<>> /\ wire = <<>>
    /\ tokenized = <<>> /\ inbound = <<>>
    /\ io \in [content_length : {<<>>} \cup {<<n>> : n \in 0..MaxBody},
               expect : BOOLEAN,
               unsent : {RequestBytes(body) : body \in 0..MaxBody},
               fin : {FALSE},
               pending : {<<>>},
               ready : {FALSE},
               pc : {"read"},
               after : {"done"},
               request_bytes : {<<>>},
               request : {<<>>},
               expected_length : {<<>>},
               header_size : {0},
               status : {0},
               would_block : {0},
               written : {<<>>},
               content : {<<>>}]

IoUnchanged ==
    UNCHANGED <<serverVars, branch, handlers, request, info, mergeVars,
                callVars, reader, writer, frame, wire, tokenized, inbound>>

(* The peer sends the next n bytes of its request. *)
PeerSend ==
    \E n \in 1..Len(io.unsent) :
        /\ ~io.fin
        /\ io' = [io EXCEPT !.pending = @ \o SubSeq(io.unsent, 1, n),
                            !.unsent = SubSeq(@, n + 1, Len(@)),
                            !.ready = TRUE]
        /\ IoUnchanged

(* The peer closes its side of the connection, whatever it has sent. *)
PeerClose ==
    /\ ~io.fin
    /\ io' = [io EXCEPT !.fin = TRUE, !.ready = TRUE]
    /\ IoUnchanged

(* dispatch_write(socket, response) is called; the loop of dispatch_read   *)
(* or dispatch goes on at `after` when it returns Ok(()).                  *)
CallDispatchWrite(c, status, after) ==
    [c EXCEPT !.pc = "write", !.status = status, !.after = after,
              !.would_block = 0]

(* socket.try_read(&mut buf) returns Ok(n), n > 0: the bytes are added to  *)
(* request_bytes.                                                          *)
ReadSome ==
    \E n \in 1..Len(io.pending) :
        /\ io.pc = "read"
        /\ io' = [io EXCEPT !.request_bytes = @ \o SubSeq(io.pending, 1, n),
                            !.pending = SubSeq(@, n + 1, Len(@))]
        /\ IoUnchanged

(* socket.try_read returns Ok(0), the peer has closed: the loop breaks and *)
(* dispatch_read returns Ok(Some(request_bytes)).                          *)
ReadEof ==
    /\ io.pc = "read"
    /\ io.pending = <<>>
    /\ io.fin
    /\ io' = [io EXCEPT !.pc = "dispatch"]
    /\ IoUnchanged

(* socket.try_read returns WouldBlock: the request is parsed if it has not *)
(* been, and the loop goes on or breaks by the Content-Length hint.        *)
ReadWouldBlock ==
    /\ io.pc = "read"
    /\ io.pending = <<>>
    /\ ~io.fin
    /\ io.ready
    /\ LET c == [io EXCEPT !.ready = FALSE]
           r == Request_parse(io.request_bytes)
           parsed == [c EXCEPT !.request = <<r.value>>,
                               !.expected_length = io.content_length,
                               !.header_size = r.value.header_size]
           Hint(d) ==
               IF d.expected_length # <<>>
                  /\ d.expected_length[1] > Len(d.request_bytes) - d.header_size
               THEN d
               ELSE [d EXCEPT !.pc = "dispatch"]
       IN  io' = IF io.request # <<>> THEN Hint(c)
                 ELSE IF r.tag = "Err"
                 THEN CallDispatchWrite(c, BAD_REQUEST, "done")
                 ELSE IF io.expect
                 THEN CallDispatchWrite(c, CONTINUE, "read")
                 ELSE Hint(parsed)
    /\ IoUnchanged

(* socket.readable() or socket.try_read fails: dispatch_read returns       *)
(* Err(Error::Io) and so does dispatch.                                    *)
ReadErr ==
    /\ io.pc = "read"
    /\ io' = [io EXCEPT !.pc = "err"]
    /\ IoUnchanged

(* Server::dispatch after dispatch_read: the bytes are parsed again and    *)
(* the pipeline is executed on the request, its body being content; a      *)
(* request that does not parse is answered 400.                            *)
Dispatch ==
    /\ io.pc = "dispatch"
    /\ LET r == Request_parse(io.request_bytes)
       IN  io' = IF r.tag = "Err"
                 THEN CallDispatchWrite(io, BAD_REQUEST, "done")
                 ELSE CallDispatchWrite([io EXCEPT !.content = <<r.value.content>>],
                                        OK, "done")
    /\ IoUnchanged

(* dispatch_write: socket.try_write(&response.serialize()) returns Ok(n)   *)
(* and the loop breaks with Ok(()), whatever n is.                         *)
WriteSome ==
    \E n \in 1..ResponseLen :
        /\ io.pc = "write"
        /\ io' = [io EXCEPT !.written = @ \o SubSeq(ResponseBytes(io.status), 1, n),
                            !.pc = io.after]
        /\ IoUnchanged

(* dispatch_write: try_write returns WouldBlock and the loop continues. *)
WriteWouldBlock ==
    /\ io.pc = "write"
    /\ io.would_block < MaxWouldBlock
    /\ io' = [io EXCEPT !.would_block = @ + 1]
    /\ IoUnchanged

(* dispatch_write: try_write returns another error, which dispatch returns. *)
WriteErr ==
    /\ io.pc = "write"
    /\ io' = [io EXCEPT !.pc = "err"]
    /\ IoUnchanged

IoNext ==
    \/ PeerSend
    \/ PeerClose
    \/ ReadSome
    \/ ReadEof
    \/ ReadWouldBlock
    \/ ReadErr
    \/ Dispatch
    \/ WriteSome
    \/ WriteWouldBlock
    \/ WriteErr

IoSpec == IoInit /\ [][IoNext]_vars

(***************************************************************************)
(* The bytes of a WebSocket connection and the frames read from them       *)
(* (communication.rs, web_socket_reader.rs, web_socket_thread.rs)          *)
(***************************************************************************)

(* The peer sends at most MaxFrames frames. *)
MaxFrames == 2

(* Frame::text *)
TextFrame(payload) ==
    [inner_op_code |-> OP_CODE_TEXT, masking_key |-> <<>>,
     message |-> [kind |-> "Text", payload |-> payload]]

RECURSIVE Concat(_)
Concat(seqs) == IF seqs = <<>> THEN <<>> ELSE Head(seqs) \o Concat(Tail(seqs))

(* FrameParseError::Incomplete{expected, ..}: the length of the header and *)
(* the payload of the frame that candidate begins.                         *)
Expected(candidate) ==
    LET min_length == candidate[2] % 128
    IN  (IF min_length = 126 THEN 4 + from_be_bytes(SubSeq(candidate, 3, 4))
         ELSE IF min_length = 127 THEN 10 + from_be_bytes(SubSeq(candidate, 3, 10))
         ELSE 2 + min_length)
        + (IF candidate[2] \div 128 = 1 THEN 4 ELSE 0)

(* The peer is about to send up to MaxFrames text frames over a connection *)
(* that one of the two read loops serves.                                  *)
InboundInit ==
    /\ ServerInit /\ RouteInit /\ operands = <<>> /\ merged = <<>> /\ CallInit
    /\ reader = <<>> /\ writer = <<>> /\ frame = <<>> /\ wire = <<>>
    /\ tokenized = <<>> /\ io = <<>>
    /\ \E frames \in UNION {[1..n -> {TextFrame(<<97>>), TextFrame(<<98>>),
                                       TextFrame(<<97, 98>>)}] :
                               n \in 1..MaxFrames},
          loop_kind \in {"WebSocketCustomChild", "WebSocketThread"} :
            inbound = [loop |-> loop_kind,
                       frames |-> frames,
                       unsent |-> Concat([k \in 1..Len(frames) |->
                                             into_bytes(frames[k])]),
                       buf |-> <<>>,
                       expected_length |-> <<>>,
                       delivered |-> <<>>,
                       pc |-> "reading"]

InboundUnchanged ==
    UNCHANGED <<serverVars, branch, handlers, request, info, mergeVars,
                callVars, reader, writer, frame, wire, tokenized, io>>

(* What the loop of the reader does with the result of Frame::parse on the *)
(* bytes it got: a message goes to on_message and the next read starts     *)
(* with an empty buffer; Close and the errors end the loop.                *)
Deliver(c, parsed) ==
    IF parsed.tag = "Panic" THEN [c EXCEPT !.pc = "panicked"]
    ELSE IF parsed.tag = "Err"
    THEN IF parsed.value = "Incomplete"
         THEN [c EXCEPT !.buf = <<>>, !.expected_length = <<>>]
         ELSE [c EXCEPT !.pc = "closed"]
    ELSE IF parsed.value.message.kind = "Close" THEN [c EXCEPT !.pc = "closed"]
    ELSE [c EXCEPT !.buf = <<>>, !.expected_length = <<>>,
                   !.delivered = Append(@, parsed.value.message)]

(* communication::read_bytes under WebSocketCustomChild::spawn: try_read   *)
(* returns n bytes, whatever the peer has sent by then.                    *)
ReadBytes ==
    \E n \in 1..Len(inbound.unsent) :
        /\ inbound.loop = "WebSocketCustomChild"
        /\ inbound.pc = "reading"
        /\ LET stream_bytes == inbound.buf \o SubSeq(inbound.unsent, 1, n)
               c == [inbound EXCEPT !.unsent = SubSeq(@, n + 1, Len(@)),
                                    !.buf = stream_bytes]
               r == parse(stream_bytes)
           IN  inbound' =
                 IF inbound.expected_length # <<>>
                 THEN IF Len(stream_bytes) # inbound.expected_length[1] THEN c
                      ELSE Deliver(c, r)
                 ELSE IF r.tag = "Err" /\ r.value = "Incomplete"
                 THEN [c EXCEPT !.expected_length = <<Expected(stream_bytes)>>]
                 ELSE Deliver(c, r)
        /\ InboundUnchanged

(* WebSocketThread::read_frame under read_loop: read_buf adds n bytes to   *)
(* the buffer of this call of read_frame and the buffer is parsed.         *)
ReadBuf ==
    \E n \in 1..Len(inbound.unsent) :
        /\ inbound.loop = "WebSocketThread"
        /\ inbound.pc = "reading"
        /\ LET buf == inbound.buf \o SubSeq(inbound.unsent, 1, n)
               c == [inbound EXCEPT !.unsent = SubSeq(@, n + 1, Len(@)),
                                    !.buf = buf]
               r == parse(buf)
           IN  inbound' =
                 IF r.tag = "Err" /\ r.value = "Incomplete" THEN c
                 ELSE IF r.tag = "Err" THEN [c EXCEPT !.buf = <<>>]
                 ELSE Deliver(c, r)
        /\ InboundUnchanged

InboundNext ==
    \/ ReadBytes
    \/ ReadBuf

InboundSpec == InboundInit /\ [][InboundNext]_vars

(***************************************************************************)
(* Properties of the server                                                *)
(***************************************************************************)

TaskOutcomes == {"ok", "err", "timeout"}

\* C1: at every moment the number of connection tasks spawned by the accept
\* loop and not yet finished is at most max_connections.
C1_InFlightBounded ==
    Cardinality(InFlight) <= MaxConnections

\* The server is saturated while another client waits.
C1_Witness ==
    /\ Cardinality(InFlight) = MaxConnections
    /\ backlog # <<>>

\* C2: the permit of an accepted connection stays taken while its task runs
\* and is returned exactly once when the task ends, whatever the outcome
\* (dispatch Ok, dispatch Err, timeout).
C2_PermitHeldUntilTaskEnds ==
    /\ \A c \in Clients :
          /\ conn[c].pc \in InDispatch => conn[c].released = 0
          /\ conn[c].pc = "done" =>
                conn[c].released = 1 /\ conn[c].outcome \in TaskOutcomes
    /\ max_connections + Cardinality(InFlight) <= MaxConnections

\* Three tasks have ended, one in each way, and each gave its permit back.
C2_Witness ==
    \A o \in TaskOutcomes :
        \E c \in Clients :
            conn[c].pc = "done" /\ conn[c].outcome = o /\ conn[c].released = 1

\* C3 (as claimed): while max_connections tasks are in flight the loop is
\* not in accept; and once a permit is available the loop eventually accepts
\* the next waiting connection (unless the server is shut down first).
C3_AcceptBackpressure ==
    /\ [](Cardinality(InFlight) = MaxConnections => loop # "accept")
    /\ \A c \in Clients :
          (run = "running" /\ max_connections > 0
              /\ backlog # <<>> /\ Head(backlog) = c)
          ~> (conn[c].pc # "waiting" \/ run = "ok")

\* C4: when the timeout elapses while the read, the handling or the write of
\* a connection has not finished, the task ends at once, the socket is
\* dropped and no response has been written to it (at most the interim 100
\* of a request with Expect: 100-continue); and nothing is written to the
\* socket of a timed-out connection afterwards.
C4_TimeoutDropsConnection ==
    /\ [][\A c \in Clients :
            (conn[c].pc \in BeforeResponse /\ conn'[c].outcome = "timeout") =>
                /\ conn'[c].pc = "done"
                /\ conn'[c].socket = "dropped"
                /\ conn'[c].written = Written(c, CONTINUE)]_vars
    /\ [][\A c \in Clients :
            conn[c].outcome = "timeout" => conn'[c] = conn[c]]_vars

\* A plain request was accepted and its task lost the race against the timeout.
C4_Witness ==
    \E c \in Clients :
        /\ conn[c].kind = "http"
        /\ conn[c].outcome = "timeout"
        /\ conn[c].socket = "dropped"

\* C5 (as claimed): while the WebSocket read loop of a connection runs, the
\* permit of that connection has not been returned to the semaphore.
C5_PermitTransferredToWebSocket ==
    \A c \in Clients :
        ws[c].state = "running" => conn[c].released = 0

C18_OneContinueThenOneResponse ==
    \A c \in Clients :
        conn[c].kind = "expect" =>
            /\ Len(Written(c, CONTINUE)) <= 1
            /\ conn[c].outcome = "ok" => conn[c].written = <<CONTINUE, OK>>

\* C29: while the accept loop runs, the available permits plus the
\* connection tasks in flight plus one if the loop has taken a permit and
\* waits in accept equal max_connections, also after accept calls that
\* returned an error: no capacity is lost for good.
C29_PermitsConserved ==
    loop # "dropped" =>
        max_connections + Cardinality(InFlight)
            + (IF loop = "accept" THEN 1 ELSE 0) = MaxConnections

(***************************************************************************)
(* Properties of the routing tree                                          *)
(***************************************************************************)

RECURSIVE Subtrees(_)
Subtrees(b) ==
    {b}
    \cup UNION {Subtrees(b.exact_branches[k]) : k \in DOMAIN b.exact_branches}
    \cup UNION {Subtrees(b.pattern_branches[i].branch) :
                    i \in 1..Len(b.pattern_branches)}
    \cup (IF b.variable_branch = <<>> THEN {}
          ELSE Subtrees(b.variable_branch[1].branch))

OwnCallbacks(b) ==
    {b.method_callbacks[m] : m \in DOMAIN b.method_callbacks}
    \cup {b.default_method_callback[i] : i \in 1..Len(b.default_method_callback)}
    \cup {b.default_callback[i] : i \in 1..Len(b.default_callback)}
    \cup {b.files_callback[i] : i \in 1..Len(b.files_callback)}

Callbacks(b) == UNION {OwnCallbacks(n) : n \in Subtrees(b)}

\* every rest of the request path that a node of the tree may be asked for
Trails(path) ==
    {path} \cup {SubSeq(path, i + 1, Len(path)) :
                    i \in {k \in 1..Len(path) : SubSeq(path, k, k) = "/"}}

Segments(path) == SelectSeq(Components(path), LAMBDA seg : seg # "")

FinalSegmentHasExtension(trail) ==
    /\ Segments(trail) # <<>>
    /\ LET final == Segments(trail)[Len(Segments(trail))]
       IN  \E k \in 2..Len(final) : SubSeq(final, k, k) = "."

Matching(b, base) ==
    {i \in 1..Len(b.pattern_branches) :
        is_match(b.pattern_branches[i].regex, base)}

\* the node a path leads to: the exact child, else the first pattern child
\* that matches, else the variable child, at every segment
RECURSIVE Reached(_, _)
Reached(b, trail) ==
    LET trimmed == TrimStartMatches(trail, "/")
        base == BaseOf(trimmed)
        rest == RestOf(trimmed)
        hits == Matching(b, base)
    IN  IF trimmed = "" THEN <<b>>
        ELSE IF base \in DOMAIN b.exact_branches
        THEN Reached(b.exact_branches[base], rest)
        ELSE IF hits # {}
        THEN Reached(b.pattern_branches[
                        CHOOSE i \in hits : \A j \in hits : i <= j].branch, rest)
        ELSE IF b.variable_branch # <<>>
        THEN Reached(b.variable_branch[1].branch, rest)
        ELSE <<>>

\* C7: when a segment could be served by more than one kind of child, the
\* exact child is used before a matching pattern child, and a matching
\* pattern child before the variable child; of several matching patterns the
\* first one inserted is used.
C7_ChildPrecedence ==
    request # <<>> =>
      \A n \in Subtrees(purify(branch)), trail \in Trails(request[1].path) :
        LET trimmed == TrimStartMatches(trail, "/")
            base == BaseOf(trimmed)
            rest == RestOf(trimmed)
            method == request[1].method
            r == callback_information(n, trail, method)
            hits == Matching(n, base)
            first == {i \in hits : \A j \in hits : i <= j}
            Below(child) == callback_information(child, rest, method)
            From(child) == r # <<>> /\ r[1].callback \in Callbacks(child)
        IN  trimmed # "" =>
              /\ base \in DOMAIN n.exact_branches =>
                    /\ \A i \in 1..Len(n.pattern_branches) :
                           ~From(n.pattern_branches[i].branch)
                    /\ n.variable_branch # <<>> =>
                           ~From(n.variable_branch[1].branch)
                    /\ Below(n.exact_branches[base]) # <<>> =>
                           From(n.exact_branches[base])
              /\ \A i \in 1..Len(n.pattern_branches) :
                    From(n.pattern_branches[i].branch) => i \in first
              /\ \A i \in first :
                    (base \notin DOMAIN n.exact_branches
                        /\ Below(n.pattern_branches[i].branch) # <<>>)
                    => From(n.pattern_branches[i].branch)
              /\ (n.variable_branch # <<>> /\ From(n.variable_branch[1].branch))
                    => \A i \in first : Below(n.pattern_branches[i].branch) = <<>>

\* two patterns match the first segment, a variable child is there too, and
\* the handler under the first pattern answers
C7_Witness ==
    /\ request # <<>>
    /\ info # <<>>
    /\ LET root == purify(branch)
           base == BaseOf(TrimStartMatches(request[1].path, "/"))
           hits == Matching(root, base)
       IN  /\ Cardinality(hits) >= 2
           /\ root.variable_branch # <<>>
           /\ Callbacks(root.variable_branch[1].branch) # {}
           /\ \E i \in hits :
                 /\ \A j \in hits : i <= j
                 /\ info[1].callback \in Callbacks(root.pattern_branches[i].branch)

\* C8: a request whose path reaches a node that has handlers for other
\* methods but none for the request's method, and no unmatched-method
\* handler, is answered 405 Method Not Allowed.
C8_UnmatchedMethodIs405 ==
    request # <<>> =>
      LET n == Reached(purify(branch), request[1].path)
      IN  (/\ n # <<>>
           /\ DOMAIN n[1].method_callbacks # {}
           /\ request[1].method \notin DOMAIN n[1].method_callbacks
           /\ n[1].default_method_callback = <<>>)
          => DispatchStatus(info) = 405

\* the children of a node that are asked for the rest of a trail
Tried(b, base, rest, method) ==
    IF base \in DOMAIN b.exact_branches THEN {b.exact_branches[base]}
    ELSE LET first == {i \in Matching(b, base) : \A j \in Matching(b, base) : i <= j}
         IN  {b.pattern_branches[i].branch : i \in first}
             \cup (IF b.variable_branch # <<>>
                      /\ \A i \in first :
                            callback_information(b.pattern_branches[i].branch,
                                                 rest, method) = <<>>
                   THEN {b.variable_branch[1].branch} ELSE {})

\* C9: a node with a default handler answers every request for its own path
\* and for any path underneath it; the default handler is the one that
\* answers exactly when the path does not otherwise resolve, and a default
\* handler of a deeper node on the walked path answers before it.
C9_DefaultAnswersUnresolved ==
    request # <<>> =>
      \A n \in Subtrees(purify(branch)), trail \in Trails(request[1].path) :
        n.default_callback # <<>> =>
          LET trimmed == TrimStartMatches(trail, "/")
              base == BaseOf(trimmed)
              rest == RestOf(trimmed)
              method == request[1].method
              r == callback_information(n, trail, method)
              tried == Tried(n, base, rest, method)
              by_default == r # <<>> /\ r[1].callback = n.default_callback[1]
          IN  /\ r # <<>>
              /\ trimmed = "" =>
                    (by_default <=>
                        /\ method \notin DOMAIN n.method_callbacks
                        /\ n.default_method_callback = <<>>)
              /\ trimmed # "" =>
                    /\ by_default <=>
                        /\ \A c \in tried :
                              callback_information(c, rest, method) = <<>>
                        /\ ~(FinalSegmentHasExtension(trimmed)
                                /\ n.files_callback # <<>>)
                    /\ \A c \in tried :
                          c.default_callback # <<>> =>
                              r[1].callback \in Callbacks(c)

\* the root and a deeper node both have a default handler, the path goes on
\* underneath the deeper node, and the deeper default handler answers
C9_Witness ==
    /\ request # <<>>
    /\ info # <<>>
    /\ info[1].tracker = "Default"
    /\ info[1].depth >= 1
    /\ Len(Segments(request[1].path)) > info[1].depth
    /\ purify(branch).default_callback # <<>>
    /\ info[1].callback # purify(branch).default_callback[1]

\* C10: when no deeper node resolves the request, the node answers with its
\* files handler if the final path segment has an extension and the node has
\* a files handler; otherwise with its default handler if it has one;
\* otherwise the request is not matched at this node.
C10_FilesBeforeDefault ==
    request # <<>> =>
      \A n \in Subtrees(purify(branch)), trail \in Trails(request[1].path) :
        LET trimmed == TrimStartMatches(trail, "/")
            base == BaseOf(trimmed)
            rest == RestOf(trimmed)
            method == request[1].method
            r == callback_information(n, trail, method)
        IN  (/\ trimmed # ""
             /\ \A c \in Tried(n, base, rest, method) :
                   callback_information(c, rest, method) = <<>>)
            => r = IF FinalSegmentHasExtension(trimmed) /\ n.files_callback # <<>>
                   THEN <<ResponseHandler("File", n.files_callback[1], n.layers)>>
                   ELSE IF n.default_callback # <<>>
                   THEN <<ResponseHandler("Default", n.default_callback[1], n.layers)>>
                   ELSE <<>>

\* the root has a files handler and a default handler, and a request for a
\* path whose final segment has an extension is answered by the files handler
C10_Witness ==
    /\ request # <<>>
    /\ info # <<>>
    /\ purify(branch).files_callback # <<>>
    /\ purify(branch).default_callback # <<>>
    /\ FinalSegmentHasExtension(request[1].path)
    /\ info[1].tracker = "File"
    /\ info[1].callback = purify(branch).files_callback[1]

\* C30: when a node has an exact child for the head segment but the subtree
\* of that child does not resolve the rest of the path, resolution goes on
\* to the pattern children whose regex matches the head, in insertion order,
\* and then to the variable child, before the node falls back to its own
\* files or default handler.
C30_FallThroughExactChild ==
    request # <<>> =>
      \A n \in Subtrees(purify(branch)), trail \in Trails(request[1].path) :
        LET trimmed == TrimStartMatches(trail, "/")
            base == BaseOf(trimmed)
            rest == RestOf(trimmed)
            method == request[1].method
            r == callback_information(n, trail, method)
            hits == Matching(n, base)
            Below(child) == callback_information(child, rest, method)
            From(child) == r # <<>> /\ r[1].callback \in Callbacks(child)
        IN  (/\ trimmed # ""
             /\ base \in DOMAIN n.exact_branches
             /\ Below(n.exact_branches[base]) = <<>>)
            => /\ \A i \in hits :
                     (/\ Below(n.pattern_branches[i].branch) # <<>>
                      /\ \A j \in hits :
                            j < i => Below(n.pattern_branches[j].branch) = <<>>)
                     => From(n.pattern_branches[i].branch)
               /\ (/\ \A i \in hits : Below(n.pattern_branches[i].branch) = <<>>
                   /\ n.variable_branch # <<>>
                   /\ Below(n.variable_branch[1].branch) # <<>>)
                  => From(n.variable_branch[1].branch)

\* C31: at the node where the path ends the handler is chosen in a fixed
\* order: the handler registered for the method of the request, else the
\* unmatched-method handler, else the default handler, else the stream
\* handler, else the node gives no match.
C31_EndpointOrder ==
    request # <<>> =>
      LET n == Reached(purify(branch), request[1].path)
          method == request[1].method
          Answered(kind, tracker, callback) ==
              /\ info # <<>>
              /\ info[1].kind = kind
              /\ info[1].tracker = tracker
              /\ info[1].callback = callback
      IN  n # <<>> =>
            IF method \in DOMAIN n[1].method_callbacks
            THEN Answered("ResponseHandler", "Exact", n[1].method_callbacks[method])
            ELSE IF n[1].default_method_callback # <<>>
            THEN Answered("ResponseHandler", "UnmatchedMethod",
                          n[1].default_method_callback[1])
            ELSE IF n[1].default_callback # <<>>
            THEN Answered("ResponseHandler", "Default", n[1].default_callback[1])
            ELSE IF n[1].stream_handler # <<>>
            THEN Answered("StreamHandler", "Stream", n[1].stream_handler[1])
            ELSE callback_information(n[1], "", method) = <<>>

\* the request ends at a node that has a default handler and a stream
\* handler but nothing for the method, and the default handler answers
C31_Witness ==
    /\ request # <<>>
    /\ info # <<>>
    /\ LET n == Reached(purify(branch), request[1].path)
       IN  /\ n # <<>>
           /\ request[1].method \notin DOMAIN n[1].method_callbacks
           /\ n[1].default_method_callback = <<>>
           /\ n[1].default_callback # <<>>
           /\ n[1].stream_handler # <<>>
           /\ info[1].tracker = "Default"
           /\ info[1].callback = n[1].default_callback[1]

(***************************************************************************)
(* Properties of the layers                                                *)
(***************************************************************************)

\* the nodes callback_information walks from b to the node whose callback
\* answers the request, the root first
RECURSIVE Walk(_, _, _)
Walk(b, trail, method) ==
    LET trimmed == TrimStartMatches(trail, "/")
        base == BaseOf(trimmed)
        rest == RestOf(trimmed)
        i == FirstMatch(b.pattern_branches, base)
        child ==
            IF base \in DOMAIN b.exact_branches THEN b.exact_branches[base]
            ELSE IF i # 0 /\ callback_information(b.pattern_branches[i].branch,
                                                  rest, method) # <<>>
            THEN b.pattern_branches[i].branch
            ELSE b.variable_branch[1].branch
    IN  IF trimmed = "" \/ Deeper(b, base, rest, method).result = <<>>
        THEN <<b>>
        ELSE <<b>> \o Walk(child, rest, method)

Range(seq) == {seq[i] : i \in 1..Len(seq)}

\* where a function is entered, called or left in an execution
Pos(trace, event, f) ==
    CHOOSE i \in 1..Len(trace) : trace[i] = [event |-> event, f |-> f]

Entered(trace) == {trace[i].f : i \in {k \in 1..Len(trace) : trace[k].event = "enter"}}

\* the execution of the pipeline of the resolved request, and the walked nodes
Resolved == request # <<>> /\ info # <<>> /\ info[1].kind = "ResponseHandler"

Execution == execute(info[1].pipeline)

Walked == Walk(purify(branch), request[1].path, request[1].method)

\* the events of an execution that belong to the given functions
Only(trace, fs) == SelectSeq(trace, LAMBDA e : e.f \in fs)

Events(event, fs) == [i \in 1..Len(fs) |-> [event |-> event, f |-> fs[i]]]

\* the two layers of the outer node N1 and the layer of the inner node N2,
\* in the order of their registration, when the request is routed to N2
C11_Cases ==
    {<<l1a, l1b, l2a>> \in (1..handlers) \X (1..handlers) \X (1..handlers) :
        /\ l1a < l1b
        /\ \E i \in 1..(Len(Walked) - 1) :
              /\ Range(Walked[i].layers) = {l1a, l1b}
              /\ Len(Walked[i].layers) = 2
        /\ Walked[Len(Walked)].layers = <<l2a>>}

\* C11 as stated: the request enters l1a, then l1b, then l2a, then the
\* handler, and the response returns through l2a, l1b, l1a (the first layer
\* registered at a node is the outermost at that node).
C11_FirstRegisteredOutermost ==
    Resolved =>
      \A case \in C11_Cases :
        Only(Execution, Range(case) \cup {info[1].callback})
          = Events("enter", <<case[1], case[2], case[3]>>)
              \o Events("call", <<info[1].callback>>)
              \o Events("leave", <<case[3], case[2], case[1]>>)

\* C11: if an outer node N1 carries layers registered in the order
\* [l1a, l1b] and an inner node N2 carries [l2a], a request routed to N2
\* enters l1b, then l1a, then l2a, then the handler, and the response returns
\* through l2a, l1a, l1b: the last layer registered at a node is the outermost
\* at that node.
C11_LastRegisteredOutermost ==
    Resolved =>
      \A case \in C11_Cases :
        Only(Execution, Range(case) \cup {info[1].callback})
          = Events("enter", <<case[2], case[1], case[3]>>)
              \o Events("call", <<info[1].callback>>)
              \o Events("leave", <<case[3], case[1], case[2]>>)

\* the root carries two layers, the node the request is routed to carries
\* one, and the pipeline of the request has been built
C11_Witness ==
    /\ Resolved
    /\ C11_Cases # {}
    /\ Len(Execution) = 7

\* C12: calling layer several times on the same branch wraps the preceding
\* layer like an onion: a layer added by a later call is entered before and
\* left after every layer added by an earlier call on that node, and all of
\* them are entered before and left after the core handler is called.
C12_LaterLayerWrapsEarlier ==
    Resolved =>
      \A i \in 1..Len(Walked) :
        \A earlier \in Range(Walked[i].layers), later \in Range(Walked[i].layers) :
          /\ earlier < later =>
                /\ Pos(Execution, "enter", later) < Pos(Execution, "enter", earlier)
                /\ Pos(Execution, "leave", earlier) < Pos(Execution, "leave", later)
          /\ Pos(Execution, "enter", earlier) < Pos(Execution, "call", info[1].callback)
          /\ Pos(Execution, "call", info[1].callback) < Pos(Execution, "leave", earlier)

\* a node on the path of the resolved request got two layers
C12_Witness ==
    /\ Resolved
    /\ \E i \in 1..Len(Walked) : Len(Walked[i].layers) >= 2
    /\ [event |-> "call", f |-> info[1].callback] \in Range(Execution)

\* C13: in the pipeline built for a resolved request, every layer of a node
\* closer to the root wraps every layer of a node further down the matched
\* path, and only the layers of the nodes on the matched path are present.
C13_OuterNodeWrapsInner ==
    Resolved =>
      /\ Entered(Execution) = UNION {Range(Walked[i].layers) : i \in 1..Len(Walked)}
      /\ \A i \in 1..Len(Walked), j \in 1..Len(Walked) :
            i < j =>
              \A outer \in Range(Walked[i].layers), inner \in Range(Walked[j].layers) :
                /\ Pos(Execution, "enter", outer) < Pos(Execution, "enter", inner)
                /\ Pos(Execution, "leave", inner) < Pos(Execution, "leave", outer)

\* two nodes on the path of the resolved request carry layers, and a node
\* that is not on the path carries one too
C13_Witness ==
    /\ Resolved
    /\ \E i \in 1..Len(Walked), j \in 1..Len(Walked) :
          i < j /\ Walked[i].layers # <<>> /\ Walked[j].layers # <<>>
    /\ \E n \in Subtrees(purify(branch)) :
          n.layers # <<>> /\ Range(n.layers) \cap Entered(Execution) = {}

\* C37: a request that resolves to a stream handler passes through the
\* layers registered on the nodes along its path, as a request that resolves
\* to a response handler does: the handler is not called without every layer
\* above it having been entered first.
C37_StreamHandlerLayered ==
    (request # <<>> /\ info # <<>> /\ info[1].kind = "StreamHandler") =>
      \A i \in 1..Len(Walked) :
        \A l \in Range(Walked[i].layers) :
          \E k \in 1..Len(Execution) :
            /\ Execution[k] = [event |-> "enter", f |-> l]
            /\ \A c \in 1..k : Execution[c].event # "call"

(***************************************************************************)
(* Properties of the Path extractor                                        *)
(***************************************************************************)

\* the segments of the path that callback_information matched against a
\* pattern child or the variable child, from the left
RECURSIVE MatchedSegments(_, _, _)
MatchedSegments(b, trail, method) ==
    LET trimmed == TrimStartMatches(trail, "/")
        base == BaseOf(trimmed)
        rest == RestOf(trimmed)
        i == FirstMatch(b.pattern_branches, base)
        child ==
            IF base \in DOMAIN b.exact_branches THEN b.exact_branches[base]
            ELSE IF i # 0 /\ callback_information(b.pattern_branches[i].branch,
                                                  rest, method) # <<>>
            THEN b.pattern_branches[i].branch
            ELSE b.variable_branch[1].branch
    IN  IF trimmed = "" \/ Deeper(b, base, rest, method).result = <<>>
        THEN <<>>
        ELSE (IF base \in DOMAIN b.exact_branches THEN <<>> ELSE <<base>>)
                \o MatchedSegments(child, rest, method)

\* C14: for any route and any request path matching it, position k of the
\* Path extractor reads the k-th segment of the path that was matched
\* against a variable or a pattern, counted from the left: it yields that
\* segment, percent-decoded.
C14_PathExtractorReadsVariables ==
    Resolved =>
      LET matched == MatchedSegments(purify(branch), request[1].path,
                                     request[1].method)
      IN  /\ Len(info[1].variable_indices) = Len(matched)
          /\ \A k \in 1..Len(matched) :
                PathExtract(request[1].path, info[1].variable_indices, k - 1)
                  = IF percent_decode_str(matched[k]) = <<>> THEN ExtractionBR
                    ELSE Ok(percent_decode_str(matched[k])[1])

\* C38: for every request path that resolves, including paths with repeated
\* slashes, the token that the Path extractor reads at each stamped variable
\* index is the very segment the resolver matched against the corresponding
\* variable or pattern child.
C38_TokensAreMatchedSegments ==
    Resolved =>
      LET matched == MatchedSegments(purify(branch), request[1].path,
                                     request[1].method)
          tokens == tokenize(TrimStartMatches(request[1].path, "/"))
          variable_indices == info[1].variable_indices
      IN  /\ Len(variable_indices) = Len(matched)
          /\ \A k \in 1..Len(matched) :
                /\ variable_indices[k] + 1 <= Len(tokens)
                /\ tokens[variable_indices[k] + 1] = matched[k]

(***************************************************************************)
(* Properties of merge                                                     *)
(***************************************************************************)

\* the first pattern child of a node with the given regex source, 0 if none
Same(pattern_branches, regex) ==
    LET same == {i \in 1..Len(pattern_branches) : pattern_branches[i].regex = regex}
    IN  IF same = {} THEN 0 ELSE CHOOSE i \in same : \A j \in same : i <= j

\* the nodes present in both trees, each with the node that is at its place
\* in the merged tree: the roots, the exact children under the same key of
\* such nodes, and their pattern children with the same regex source
RECURSIVE InBoth(_, _, _)
InBoth(l, r, m) ==
    {<<l, r, m>>}
    \cup UNION {InBoth(l.exact_branches[k], r.exact_branches[k], m.exact_branches[k]) :
                    k \in DOMAIN l.exact_branches \cap DOMAIN r.exact_branches
                            \cap DOMAIN m.exact_branches}
    \cup UNION {InBoth(l.pattern_branches[Same(l.pattern_branches,
                                               r.pattern_branches[j].regex)].branch,
                       r.pattern_branches[j].branch,
                       m.pattern_branches[Same(l.pattern_branches,
                                               r.pattern_branches[j].regex)].branch) :
                    j \in {x \in 1..Len(r.pattern_branches) :
                            /\ Same(l.pattern_branches, r.pattern_branches[x].regex) # 0
                            /\ Len(m.pattern_branches) >= Len(l.pattern_branches)}}

MergedNodes ==
    UNION {InBoth(merged[i].lhs, merged[i].rhs, merged[i].result) :
            i \in 1..Len(merged)}

LeftWins(left, right) == IF left # <<>> THEN left ELSE right

C16_PatternsMergedOrAppended ==
    \A t \in MergedNodes :
        LET lp == t[1].pattern_branches
            rp == t[2].pattern_branches
            mp == t[3].pattern_branches
            other == SelectSeq(rp, LAMBDA p : Same(lp, p.regex) = 0)
        IN  /\ Len(mp) = Len(lp) + Len(other)
            /\ \A i \in 1..Len(lp) :
                  /\ mp[i].regex = lp[i].regex
                  /\ DOMAIN mp[i].branch.method_callbacks
                        = DOMAIN lp[i].branch.method_callbacks
                          \cup UNION {DOMAIN rp[j].branch.method_callbacks :
                                        j \in {x \in 1..Len(rp) :
                                                Same(lp, rp[x].regex) = i}}
            /\ \A j \in 1..Len(other) : mp[Len(lp) + j] = other[j]

\* the right-hand side of a merge had two pattern children: one with the
\* regex source of the second pattern of the left, and one the left had not
C16_Witness ==
    \E t \in MergedNodes :
        /\ Len(t[1].pattern_branches) = 2
        /\ Len(t[2].pattern_branches) = 2
        /\ \E j \in 1..2 : Same(t[1].pattern_branches, t[2].pattern_branches[j].regex) = 2
        /\ \E j \in 1..2 : Same(t[1].pattern_branches, t[2].pattern_branches[j].regex) = 0
        /\ Len(t[3].pattern_branches) = 3

\* C17: merge(merge(a, b), c) and merge(a, merge(b, c)) resolve every
\* (method, path) to the same handler with the same layer list and kind.
C17_MergeAssociative ==
    Len(merged) = 4 =>
      \A method \in Methods, path \in RequestPaths :
        pipeline(purify(merged[3].result), [method |-> method, path |-> path])
          = pipeline(purify(merged[4].result), [method |-> method, path |-> path])

\* the three branches were merged both ways, each of them has a handler that
\* answers some request of the merged tree, and one of these requests passes
\* through a layer
C17_Witness ==
    /\ Len(merged) = 4
    /\ \A i \in 1..3 :
          \E method \in Methods, path \in RequestPaths :
            LET p == pipeline(purify(merged[3].result),
                              [method |-> method, path |-> path])
            IN  p # <<>> /\ p[1].callback \in Callbacks(operands[i])
    /\ \E method \in Methods, path \in RequestPaths :
          LET p == pipeline(purify(merged[3].result),
                            [method |-> method, path |-> path])
          IN  p # <<>> /\ p[1].layers # <<>>

\* what a tree resolves a request to
Resolution(b, method, path) ==
    pipeline(purify(b), [method |-> method, path |-> path])

\* C35 as stated: merging never changes the outcome of a request the left
\* tree already resolved: every (method, path) that resolves to a handler in
\* lhs still resolves to it, through the same layers, in merge(lhs, rhs).
C35_LeftResolutionsKept ==
    \A i \in 1..Len(merged) :
      \A method \in Methods, path \in RequestPaths :
        LET before == Resolution(merged[i].lhs, method, path)
            after == Resolution(merged[i].result, method, path)
        IN  before # <<>> =>
              /\ after # <<>>
              /\ after[1].callback = before[1].callback
              /\ after[1].layers = before[1].layers

\* C35: merging never changes the outcome of a request that the left tree
\* resolved, through exact children only, to the handler registered for the
\* method of the request at the node where the path ends: it still resolves
\* to that handler, through the same layers, in merge(lhs, rhs).
C35_LeftExactResolutionsKept ==
    \A i \in 1..Len(merged) :
      \A method \in Methods, path \in RequestPaths :
        LET before == Resolution(merged[i].lhs, method, path)
            after == Resolution(merged[i].result, method, path)
        IN  (/\ before # <<>>
             /\ before[1].tracker = "Exact"
             /\ before[1].variable_indices = <<>>) =>
              /\ after # <<>>
              /\ after[1].callback = before[1].callback
              /\ after[1].layers = before[1].layers

\* a merge whose two sides both had a handler for GET on /1, the left one
\* under a layer: the merged tree resolves GET /1 to the handler of the left
\* through that layer
C35_Witness ==
    \E i \in 1..Len(merged) :
        LET before == Resolution(merged[i].lhs, "GET", "/1")
            right == Resolution(merged[i].rhs, "GET", "/1")
            after == Resolution(merged[i].result, "GET", "/1")
        IN  /\ before # <<>> /\ right # <<>> /\ after # <<>>
            /\ before[1].tracker = "Exact"
            /\ right[1].tracker = "Exact"
            /\ before[1].variable_indices = <<>>
            /\ before[1].layers # <<>>
            /\ right[1].callback # before[1].callback
            /\ after[1].callback = before[1].callback
            /\ after[1].layers = before[1].layers

\* C36: after a merge, a request that resolves to a handler contributed by
\* the right-hand branch still passes through every layer the right-hand
\* branch had registered on the nodes along the path of that handler, also
\* when those nodes already existed in the left-hand branch.
C36_RightLayersKept ==
    \A i \in 1..Len(merged) :
      \A method \in Methods, path \in RequestPaths :
        LET right == Resolution(merged[i].rhs, method, path)
            after == Resolution(merged[i].result, method, path)
        IN  (/\ right # <<>> /\ after # <<>>
             /\ after[1].callback = right[1].callback) =>
              Range(right[1].layers) \subseteq Range(after[1].layers)

(***************************************************************************)
(* Properties of the callbacks                                             *)
(***************************************************************************)

\* C19: when an extractor of a typed handler fails, a bad-request failure
\* (ExtractionBR) is answered with status 400 and a server-side failure
\* (ExtractionSE) with status 500; in both cases the handler body does not
\* run.
C19_ExtractionErrorStatus ==
    response # <<>> =>
        /\ response[1].extraction = "ExtractionBR" =>
              response[1].status = BAD_REQUEST /\ ~response[1].invoked
        /\ response[1].extraction = "ExtractionSE" =>
              response[1].status = INTERNAL_SERVER_ERROR /\ ~response[1].invoked

(***************************************************************************)
(* Properties of the WebSocket handshake                                   *)
(***************************************************************************)

\* C20: if any header required for the WebSocket upgrade (Upgrade:
\* websocket, a Connection value with Upgrade, Sec-WebSocket-Key) is missing
\* or malformed, the handshake writes 400 Bad Request and closes, and
\* neither a 101 response is written nor a read loop started.
C20_BadHandshakeIs400 ==
    (/\ handshake # <<>>
     /\ handshake.by # None
     /\ ~(UpgradeRequested(handshake) /\ handshake.sec_websocket_key # <<>>))
    => /\ handshake.written = <<BAD_REQUEST>>
       /\ handshake.stream = <<>>


(***************************************************************************)
(* Properties of the WebSocket read loops                                  *)
(***************************************************************************)

OnClose == {"on_close(true)", "on_close(false)"}

\* C21: a read loop calls on_open exactly once and before any other
\* callback, then on_message zero or more times, then on_close exactly
\* once, and nothing after on_close: the calls of a loop that has started
\* begin with the only on_open, an on_close is the last call, and a loop has
\* ended exactly when its last call is an on_close.
C21_CallbackOrder ==
    reader # <<>> =>
        /\ (reader.pc # "spawned") =
              (reader.calls # <<>> /\ reader.calls[1] = "on_open")
        /\ \A i \in 2..Len(reader.calls) : reader.calls[i] # "on_open"
        /\ \A i \in 1..(Len(reader.calls) - 1) : reader.calls[i] \notin OnClose
        /\ (reader.pc = "ended") =
              (reader.calls # <<>> /\ reader.calls[Len(reader.calls)] \in OnClose)

\* C22: the loop ends with on_close(true) exactly when it read a Close frame
\* with automatic close enabled; an error of the socket, the end of the
\* stream and every frame parse error but Incomplete end it with
\* on_close(false); Incomplete never ends it.
C22_CloseReason ==
    (reader # <<>> /\ reader.reads # <<>>) =>
        LET read == reader.reads[Len(reader.reads)]
            call == reader.calls[Len(reader.calls)]
        IN  /\ (reader.pc = "ended" /\ call = "on_close(true)") =
                  (read = "Close" /\ reader.automatic_close)
            /\ read \in ({"Io", "Eof"} \cup FrameParseErrors) \ {"Incomplete"} =>
                  reader.pc = "ended" /\ call = "on_close(false)"
            /\ read = "Incomplete" => reader.pc = "reading"


(***************************************************************************)
(* Properties of the WebSocket writer                                      *)
(***************************************************************************)

\* C23: when several tasks send through the same writer, the bytes of each
\* frame reach the socket contiguously and complete: the frame of every task
\* whose write returned Ok(()) is a run of consecutive bytes of the socket.
C23_FramesContiguous ==
    writer # <<>> =>
        \A t \in Writers :
            writer.task[t].pc = "ok" =>
                \E i \in 1..Len(writer.socket) :
                    /\ i + writer.task[t].content - 1 <= Len(writer.socket)
                    /\ \A k \in 1..writer.task[t].content :
                          writer.socket[i + k - 1] = <<t, k>>


\* C39: a write delivers every byte of the serialized data to the socket in
\* order and exactly once, in chunks of at most CHUNK_SIZE bytes, retrying
\* on WouldBlock and resuming after a partial write at the first unwritten
\* byte, and it returns once all bytes are written.
C39_WriteDeliversAll ==
    \A t \in Writers :
        LET w == writer.task[t]
            mine == SelectSeq(writer.socket, LAMBDA byte : byte[1] = t)
        IN  /\ mine = [k \in 1..Len(mine) |-> <<t, k>>]
            /\ Len(mine) <= w.content
            /\ w.pc = "writable" =>
                  /\ Len(mine) < w.content
                  /\ Len(mine) = w.chunk + w.advanced - 1
                  /\ w.advanced < ChunkSize
            /\ w.pc = "ok" => Len(mine) = w.content

\* a task has written a frame of two chunks although try_write reported
\* WouldBlock and took the first chunk in two pieces, the other task having
\* written in between
C39_Witness ==
    \E t \in Writers :
        /\ writer.task[t].pc = "ok"
        /\ writer.task[t].content = MaxFrameLen
        /\ writer.task[t].would_block > 0
        /\ \E i \in 1..Len(writer.socket), j \in 1..Len(writer.socket) :
              /\ i + 1 < j
              /\ writer.socket[i] = <<t, 1>>
              /\ writer.socket[j] = <<t, 2>>

(***************************************************************************)
(* Properties of the frame codec                                           *)
(***************************************************************************)

\* C24: for every supported message (Text, Binary, Ping, Pong, Close) and
\* every payload length, 125, 126, 65535 and 65536 bytes included, parsing
\* the bytes produced by serializing the frame of the message yields the
\* message again, with or without a masking key.
C24_FrameRoundTrip ==
    (frame # <<>> /\ frame.source # <<>> /\ frame.parsed # <<>>) =>
        /\ frame.parsed[1].tag = "Ok"
        /\ frame.parsed[1].value.message = frame.source[1].message
        /\ frame.parsed[1].value.inner_op_code = frame.source[1].inner_op_code

\* the round trip of a masked frame of 65536 bytes has been made
C24_Witness ==
    /\ frame # <<>> /\ frame.source # <<>> /\ frame.parsed # <<>>
    /\ frame.source[1].masking_key # <<>>
    /\ Len(frame.source[1].message.payload) = 65536
    /\ frame.parsed[1].tag = "Ok"
    /\ Len(frame.parsed[1].value.message.payload) = 65536

\* the number of bytes of the header a slice announces: 2, plus 2 or 8 for
\* the length forms 126 and 127, plus 4 when MASK is set
RequiredHeader(candidate) ==
    2 + (IF Len(candidate) < 2 THEN 0
         ELSE (IF candidate[2] % 128 = 126 THEN 2
               ELSE IF candidate[2] % 128 = 127 THEN 8 ELSE 0)
              + (IF candidate[2] >= 128 THEN 4 ELSE 0))

\* C25: for every non-empty slice (with a valid first byte) that is shorter
\* than the header its length form requires, Frame::parse returns the
\* Malformed error.
C25_ShortHeaderIsMalformed ==
    (frame # <<>> /\ frame.source = <<>> /\ frame.parsed # <<>>) =>
        LET candidate == frame.content[1]
        IN  (/\ candidate[1] \div 16 = 8
             /\ Len(candidate) < RequiredHeader(candidate)) =>
                frame.parsed[1] = Err("Malformed")

\* C40: a frame whose op code is Continuation (0x0), Text, Binary, Close,
\* Ping or Pong and whose FIN/RSV bits and length are valid parses
\* successfully; a frame with any other op code yields UnsupportedOpCode.
C40_OpCodes ==
    (frame # <<>> /\ frame.parsed # <<>>) =>
        LET candidate == frame.content[1]
            inner_op_code == candidate[1] % 16
        IN  (/\ candidate[1] \div 16 = 8
             /\ Len(candidate) >= RequiredHeader(candidate)
             /\ Len(candidate) >= Expected(candidate)) =>
                IF inner_op_code \in {OP_CODE_CONTINUATION, OP_CODE_TEXT,
                                      OP_CODE_BINARY, OP_CODE_CLOSE,
                                      OP_CODE_PING, OP_CODE_PONG}
                THEN frame.parsed[1].tag = "Ok"
                ELSE frame.parsed[1] = Err("UnsupportedOpCode")


(***************************************************************************)
(* Properties of the response codec                                        *)
(***************************************************************************)

\* the lines of the head of serialized bytes that are a Content-Length header
ContentLengthLines(bytes) ==
    LET lines == SplitStr(SubSeq(bytes, 1, Find(bytes, "\r\n\r\n") - 1), "\r\n")
    IN  {k \in 1..Len(lines) : StartsWith(lines[k], "Content-Length:")}

\* C26: serializing a response inserts a Content-Length header equal to the
\* length of the body only when the response does not already carry one: the
\* serialized bytes contain exactly one Content-Length line, which is the
\* application's own if it gave one.
C26_OneContentLength ==
    (wire # <<>> /\ wire.bytes # <<>>) =>
        /\ Cardinality(ContentLengthLines(wire.bytes[1])) = 1
        /\ wire.sent[1].headers["Content-Length"] =
              IF "Content-Length" \in DOMAIN wire.response.headers
              THEN wire.response.headers["Content-Length"]
              ELSE <<Decimal(Len(wire.response.content))>>

\* C27: parsing the bytes produced by serializing a response yields a
\* response with the same status, the same headers (the same values under
\* the same names, in the same order under each name) and the same body as
\* the response that was serialized.
C27_ResponseRoundTrip ==
    (wire # <<>> /\ wire.parsed # <<>>) =>
        /\ wire.parsed[1].tag = "Ok"
        /\ wire.parsed[1].value.status = wire.sent[1].status
        /\ wire.parsed[1].value.headers = wire.sent[1].headers
        /\ wire.parsed[1].value.content = wire.sent[1].content


(***************************************************************************)
(* Properties of the tokenizer                                             *)
(***************************************************************************)

\* the separators of a path: every '/' that is not immediately preceded by a
\* backslash, a leading '/' left aside
Separators(path) ==
    {k \in 1..Len(path) :
        /\ SubSeq(path, k, k) = "/"
        /\ k # 1
        /\ SubSeq(path, k - 1, k - 1) # "\\"}

\* the pieces a path falls into when it is split at its separators
Pieces(path) ==
    LET seps == Separators(path)
        before(k) == IF \E j \in seps : j < k
                     THEN CHOOSE j \in seps : j < k /\ \A l \in seps : l < k => l <= j
                     ELSE 0
        ends == seps \cup {Len(path) + 1}
        nth(i) == CHOOSE k \in ends : Cardinality({j \in ends : j < k}) = i - 1
    IN  [i \in 1..Cardinality(ends) |-> SubSeq(path, before(nth(i)) + 1, nth(i) - 1)]

C32_BodyReadBeforeHandler ==
    (io # <<>> /\ io.content # <<>> /\ io.content_length # <<>>) =>
        Len(io.content[1]) >= io.content_length[1]

\* C33: in the write phase every byte of the serialized response is written
\* to the socket, in order and exactly once, before the connection is closed,
\* also when the socket accepts only part of the data in one write or
\* reports WouldBlock.
C33_ResponseWrittenWhole ==
    (io # <<>> /\ io.pc = "done") =>
        SelectSeq(io.written, LAMBDA byte : byte[1] = io.status)
            = ResponseBytes(io.status)

(***************************************************************************)
(* Properties of the bytes of a WebSocket connection                       *)
(***************************************************************************)

\* C34: every complete frame the peer sends is delivered to on_message
\* exactly once and in the order sent, however its bytes are split or
\* coalesced across socket reads: what was delivered is always the first
\* frames sent, and once every byte has been read every frame was delivered.
C34_FramesDelivered ==
    inbound # <<>> =>
      LET sent == [k \in 1..Len(inbound.frames) |-> inbound.frames[k].message]
      IN  /\ Len(inbound.delivered) <= Len(sent)
          /\ inbound.delivered = SubSeq(sent, 1, Len(inbound.delivered))
          /\ inbound.unsent = <<>> => inbound.delivered = sent

=============================================================================
